---------------------------- MODULE Spec2Model ----------------------------
(***************************************************************************)
(* Persian (fa) text normalization (TN) and inverse text normalization     *)
(* (ITN) grammars of nemo_text_processing.                                 *)
(*                                                                         *)
(* A grammar is a weighted finite-state transducer built from the pynini   *)
(* combinators.  Here a transducer is a value (a record naming the         *)
(* combinator and its operands) and Apply(g, s) is the set of              *)
(* <<output, weight>> pairs of the accepting paths of g over the input s.  *)
(* Strings are sequences of symbols: an ASCII character is one symbol, a   *)
(* Persian morpheme is one symbol written in Latin transliteration (the    *)
(* suffix letter م is the symbol "mim", so that دهم is <<"dah", "mim">>    *)
(* however it was built).  Weights are integers counting thousandths.      *)
(***************************************************************************)
EXTENDS Integers, Sequences, FiniteSets, TLC

\* Upper limit on the length of any string a closure is matched against.
MaxStrLen == 1000
\* A closure that reads nothing and writes something (the inverse of a closure
\* of deletions) is repeated at most MaxInsert times.
MaxInsert == 2


---------------------------------------------------------------------------
(* The transducer algebra (pynini / pynutil).                              *)

\* pynini.cross(i, o) with weight w; accep, pynutil.insert and
\* pynutil.delete of a literal string are its special cases.
\* Every transducer carries lo, the least number of symbols a path reads, and
\* first, the symbols a non-empty path can start with (any: every symbol).
Str(i, o, w) ==
    [op |-> "str", i |-> i, o |-> o, w |-> w, lo |-> Len(i),
     first |-> IF i = <<>> THEN {} ELSE {i[1]}, any |-> FALSE]
Cross(i, o) == Str(i, o, 0)
Accep(i) == Str(i, i, 0)
Insert(o) == Str(<<>>, o, 0)
InsertW(o, w) == Str(<<>>, o, w)
Delete(i) == Str(i, <<>>, 0)

\* One symbol of the set S, copied (a character class such as NEMO_DIGIT).
Class(S) == [op |-> "cls", set |-> S, neg |-> FALSE, lo |-> 1, first |-> S, any |-> FALSE]
\* One symbol outside S, copied (pynini.difference(NEMO_CHAR, S)).
NotClass(S) == [op |-> "cls", set |-> S, neg |-> TRUE, lo |-> 1, first |-> {}, any |-> TRUE]

\* The operands of a concatenation or a union gs, those of an operand that
\* is itself one taken in its place (both operations are associative).
RECURSIVE FlatArgs(_, _, _)
FlatArgs(gs, op, k) ==
    IF k > Len(gs) THEN <<>>
    ELSE (IF gs[k].op = op THEN gs[k].args ELSE <<gs[k]>>) \o FlatArgs(gs, op, k + 1)
\* a + b + ...
RECURSIVE SumLo(_, _)
SumLo(gs, k) == IF k > Len(gs) THEN 0 ELSE gs[k].lo + SumLo(gs, k + 1)
\* The parts of a concatenation a path can start in: every part before it
\* can read nothing.
Heads(gs) == {k \in 1..Len(gs) : \A j \in 1..(k - 1) : gs[j].lo = 0}
CatOf(gs) ==
    [op |-> "cat", args |-> gs, lo |-> SumLo(gs, 1),
     first |-> UNION {gs[k].first : k \in Heads(gs)},
     any |-> \E k \in Heads(gs) : gs[k].any]
Cat(gs) == CatOf(FlatArgs(gs, "cat", 1))
\* a | b | ...
MinLo(gs) == CHOOSE m \in {gs[k].lo : k \in 1..Len(gs)} : \A k \in 1..Len(gs) : m <= gs[k].lo
AltOf(gs) ==
    [op |-> "alt", args |-> gs, lo |-> MinLo(gs),
     first |-> UNION {gs[k].first : k \in 1..Len(gs)},
     any |-> \E k \in 1..Len(gs) : gs[k].any]
Alt(gs) == AltOf(FlatArgs(gs, "alt", 1))

\* pynini.string_map / pynini.string_file: one cross per table row.
CrossRows(rows) == <<>> \o [k \in 1..Len(rows) |-> Cross(rows[k][1], rows[k][2])]
StringMap(rows) == Alt(CrossRows(rows))
\* pynini.union of literal strings.
AccepRows(strs) == <<>> \o [k \in 1..Len(strs) |-> Accep(strs[k])]
UnionOf(strs) == Alt(AccepRows(strs))

\* pynutil.add_weight(g, w)
AddWeight(g, w) == [op |-> "wt", g |-> g, w |-> w, lo |-> g.lo, first |-> g.first, any |-> g.any]
\* pynutil.delete(g) for a transducer g: its input is consumed, nothing is written.
DeleteFst(g) == [op |-> "del", g |-> g, lo |-> g.lo, first |-> g.first, any |-> g.any]
\* pynini.closure(g, min, max); max = MaxStrLen stands for no upper limit.
Closure(g, min, max) ==
    [op |-> "star", g |-> g, min |-> min, max |-> max, lo |-> min * g.lo,
     first |-> g.first, any |-> g.any]
Star(g) == Closure(g, 0, MaxStrLen)
Plus(g) == Closure(g, 1, MaxStrLen)
Opt(g) == Closure(g, 0, 1)
\* a @ b
Compose(a, b) == [op |-> "comp", a |-> a, b |-> b, lo |-> a.lo, first |-> a.first, any |-> a.any]
\* pynini.difference(a, b): the paths of a over the inputs b does not accept.
Difference(a, b) == [op |-> "diff", a |-> a, b |-> b, lo |-> a.lo, first |-> a.first, any |-> a.any]

\* pynini.invert(g): input and output swapped on every arc.
RECURSIVE Invert(_)
InvertAll(gs) == <<>> \o [k \in 1..Len(gs) |-> Invert(gs[k])]
Invert(g) ==
    CASE g.op = "str" -> Str(g.o, g.i, g.w)
      [] g.op = "cls" -> g
      [] g.op = "cat" -> Cat(InvertAll(g.args))
      [] g.op = "alt" -> Alt(InvertAll(g.args))
      [] g.op = "wt" -> AddWeight(Invert(g.g), g.w)
      [] g.op = "star" ->
           LET h == Invert(g.g)
           IN  Closure(h, g.min, IF h.lo = 0 /\ g.max > MaxInsert THEN MaxInsert ELSE g.max)
      [] g.op = "comp" -> Compose(Invert(g.b), Invert(g.a))

RECURSIVE Match(_, _, _)
RECURSIVE MatchCat(_, _, _, _)
RECURSIVE MatchStar(_, _, _, _, _, _)
\* g has a path from position i of s: enough symbols are left and the next
\* one can start a path.
Viable(g, s, i) ==
    /\ Len(s) - i + 1 >= g.lo
    /\ (g.lo = 0 \/ g.any \/ s[i] \in g.first)
\* The paths of g that read s from position i: <<j, output, weight>> for a
\* path that consumes s[i..j-1].
Match(g, s, i) ==
    CASE g.op = "str" ->
           LET m == Len(g.i)
           IN  IF i + m - 1 <= Len(s) /\ SubSeq(s, i, i + m - 1) = g.i
               THEN {<<i + m, g.o, g.w>>} ELSE {}
      [] g.op = "cls" ->
           IF i <= Len(s) /\ ((s[i] \in g.set) # g.neg) THEN {<<i + 1, <<s[i]>>, 0>>} ELSE {}
      [] g.op = "alt" ->
           UNION {Match(g.args[k], s, i)
                  : k \in {j \in 1..Len(g.args) : Viable(g.args[j], s, i)}}
      [] g.op = "cat" -> MatchCat(g.args, 1, s, {<<i, <<>>, 0>>})
      [] g.op = "wt" -> {<<r[1], r[2], r[3] + g.w>> : r \in Match(g.g, s, i)}
      [] g.op = "del" -> {<<r[1], <<>>, r[3]>> : r \in Match(g.g, s, i)}
      [] g.op = "star" -> MatchStar(g.g, g.min, g.max, s, 0, {<<i, <<>>, 0>>})
      [] g.op = "comp" ->
           UNION {{<<r[1], q[2], r[3] + q[3]>>
                   : q \in {m \in Match(g.b, r[2], 1) : m[1] = Len(r[2]) + 1}}
                  : r \in Match(g.a, s, i)}
      [] g.op = "diff" ->
           {r \in Match(g.a, s, i) :
               LET x == SubSeq(s, i, r[1] - 1)
               IN  \A m \in Match(g.b, x, 1) : m[1] # Len(x) + 1}

\* The paths in R, each extended by a path of gs[k] + gs[k+1] + ... from where
\* it ended.
MatchCat(gs, k, s, R) ==
    CASE R = {} -> {}
      [] R # {} /\ k > Len(gs) -> R
      [] R # {} /\ k <= Len(gs) ->
           MatchCat(gs, k + 1, s,
                    UNION {{<<q[1], r[2] \o q[2], r[3] + q[3]>> : q \in Match(gs[k], s, r[1])}
                           : r \in R})

\* The paths in R, which have n repetitions of g, extended by further
\* repetitions up to between min and max in all; a repetition of a closure
\* of more than MaxInsert repetitions reads at least one symbol.
MatchStar(g, min, max, s, n, R) ==
    (IF n >= min THEN R ELSE {})
    \cup (IF R = {} \/ n = max THEN {}
          ELSE MatchStar(g, min, max, s, n + 1,
                         UNION {{<<q[1], r[2] \o q[2], r[3] + q[3]>>
                                 : q \in {m \in Match(g, s, r[1]) : m[1] > r[1] \/ max <= MaxInsert}}
                                : r \in R}))

\* The <<output, weight>> pairs of the accepting paths of g over the whole of s.
Apply(g, s) == {<<r[2], r[3]>> : r \in {m \in Match(g, s, 1) : m[1] = Len(s) + 1}}
\* The output strings of g over s.
Outputs(g, s) == {r[1] : r \in Apply(g, s)}
\* pynini.shortestpath: the paths of minimum total weight.
Best(R) == {r \in R : \A q \in R : r[2] <= q[2]}
BestOutputs(g, s) == {r[1] : r \in Best(Apply(g, s))}

---------------------------------------------------------------------------
(* Lexical tables (data/number/*.tsv), keyed by one digit.                 *)

SP == " "
QUOTE == "\""
DigitChars == {"0", "1", "2", "3", "4", "5", "6", "7", "8", "9"}
\* NEMO_DIGIT
NEMO_DIGIT == Class(DigitChars)
\* The character of the digit d.
DigitOf(d) == CHOOSE c \in DigitChars : ToString(d) = c

\* zero.tsv: 0 -> صفر
graph_zero == StringMap(<< <<<<"0">>, <<"sefr">>>> >>)
\* digit.tsv: 1-9 -> یک دو سه چهار پنج شش هفت هشت نه
graph_digit ==
    StringMap(<< <<<<"1">>, <<"yek">>>>, <<<<"2">>, <<"do">>>>, <<<<"3">>, <<"se">>>>,
                 <<<<"4">>, <<"chahar">>>>, <<<<"5">>, <<"panj">>>>, <<<<"6">>, <<"shesh">>>>,
                 <<<<"7">>, <<"haft">>>>, <<<<"8">>, <<"hasht">>>>, <<<<"9">>, <<"noh">>>> >>)
\* teens.tsv: the second digit of 10-19 -> ده یازده دوازده ... نوزده
graph_teens ==
    StringMap(<< <<<<"0">>, <<"dah">>>>, <<<<"1">>, <<"yazdah">>>>, <<<<"2">>, <<"davazdah">>>>,
                 <<<<"3">>, <<"sizdah">>>>, <<<<"4">>, <<"chahardah">>>>,
                 <<<<"5">>, <<"panzdah">>>>, <<<<"6">>, <<"shanzdah">>>>,
                 <<<<"7">>, <<"hefdah">>>>, <<<<"8">>, <<"hejdah">>>>, <<<<"9">>, <<"nuzdah">>>> >>)
\* tens.tsv: the first digit of 20-99 -> بیست سی چهل پنجاه شصت هفتاد هشتاد نود
graph_tens ==
    StringMap(<< <<<<"2">>, <<"bist">>>>, <<<<"3">>, <<"si">>>>, <<<<"4">>, <<"chehel">>>>,
                 <<<<"5">>, <<"panjah">>>>, <<<<"6">>, <<"shast">>>>, <<<<"7">>, <<"haftad">>>>,
                 <<<<"8">>, <<"hashtad">>>>, <<<<"9">>, <<"navad">>>> >>)
\* hundreds.tsv: the first digit of 100-999 -> صد دویست سیصد ... نهصد
graph_hundreds ==
    StringMap(<< <<<<"1">>, <<"sad">>>>, <<<<"2">>, <<"devist">>>>, <<<<"3">>, <<"sisad">>>>,
                 <<<<"4">>, <<"chaharsad">>>>, <<<<"5">>, <<"pansad">>>>,
                 <<<<"6">>, <<"sheshsad">>>>, <<<<"7">>, <<"haftsad">>>>,
                 <<<<"8">>, <<"hashtsad">>>>, <<<<"9">>, <<"nohsad">>>> >>)

---------------------------------------------------------------------------
(* text_normalization/fa/taggers/cardinal.py                               *)

\* pynutil.insert( و )
insert_va == Insert(<<SP, "va", SP>>)
\* pynutil.insert( هزار), pynutil.insert( میلیون), pynutil.insert( میلیارد)
insert_hezar == Insert(<<SP, "hezar">>)
insert_milyun == Insert(<<SP, "milyun">>)
insert_milyard == Insert(<<SP, "milyard">>)
\* pynini.cross(1, هزار), cross(1, یک میلیون), cross(1, یک میلیارد)
one_hezar == Cross(<<"1">>, <<"hezar">>)
one_milyun == Cross(<<"1">>, <<"yek", SP, "milyun">>)
one_milyard == Cross(<<"1">>, <<"yek", SP, "milyard">>)
\* pynutil.delete(0 * k)
Zeros(k) == Delete([j \in 1..k |-> "0"])

graph_single_digit == graph_digit
graph_teen == Cat(<<Cross(<<"1">>, <<>>), graph_teens>>)
graph_tens_zero == Cat(<<graph_tens, Zeros(1)>>)
graph_tens_with_digit == Cat(<<graph_tens, insert_va, graph_digit>>)
graph_two_digit == Alt(<<graph_teen, graph_tens_zero, graph_tens_with_digit>>)

graph_hundreds_zero == Cat(<<graph_hundreds, Zeros(2)>>)
graph_hundreds_with_two_digit == Cat(<<graph_hundreds, insert_va, graph_two_digit>>)
graph_hundreds_with_single == Cat(<<graph_hundreds, Zeros(1), insert_va, graph_digit>>)
graph_three_digit ==
    Alt(<<graph_hundreds_zero, graph_hundreds_with_two_digit, graph_hundreds_with_single>>)

\* 1000 -> هزار
graph_thousand_single == Cat(<<one_hezar, Zeros(3)>>)
\* graph_digit + insert( هزار) + delete(000)
graph_thousand_digit == Cat(<<graph_digit, insert_hezar, Zeros(3)>>)
graph_four_digit ==
    Alt(<<graph_thousand_single,
          graph_thousand_digit,
          \* graph_one_thousand_with_hundreds / _with_tens / _with_digit
          Cat(<<one_hezar, insert_va, graph_three_digit>>),
          Cat(<<one_hezar, Zeros(1), insert_va, graph_two_digit>>),
          Cat(<<one_hezar, Zeros(2), insert_va, graph_single_digit>>),
          \* graph_thousand_with_hundreds / _with_tens / _with_digit
          Cat(<<graph_digit, insert_hezar, insert_va, graph_three_digit>>),
          Cat(<<graph_digit, insert_hezar, Zeros(1), insert_va, graph_two_digit>>),
          Cat(<<graph_digit, insert_hezar, Zeros(2), insert_va, graph_single_digit>>)>>)

\* The four branches shared by the 5- and 6-digit graphs: head +  هزار + rest.
ThousandsOf(head) ==
    Alt(<<Cat(<<head, insert_hezar, Zeros(3)>>),
          Cat(<<head, insert_hezar, insert_va, graph_three_digit>>),
          Cat(<<head, insert_hezar, Zeros(1), insert_va, graph_two_digit>>),
          Cat(<<head, insert_hezar, Zeros(2), insert_va, graph_single_digit>>)>>)
graph_five_digit == ThousandsOf(graph_two_digit)
graph_six_digit == ThousandsOf(graph_three_digit)

graph_thousands_component ==
    Alt(<<graph_four_digit,
          Cat(<<Zeros(1), graph_three_digit>>),
          Cat(<<Zeros(2), graph_two_digit>>),
          Cat(<<Zeros(3), graph_single_digit>>)>>)

graph_seven_digit ==
    Alt(<<\* graph_million_single, graph_million_digit
          Cat(<<one_milyun, Zeros(6)>>),
          Cat(<<graph_digit, insert_milyun, Zeros(6)>>),
          \* graph_one_million_with_hundreds / _with_tens / _with_digit
          Cat(<<one_milyun, Zeros(3), insert_va, graph_three_digit>>),
          Cat(<<one_milyun, Zeros(4), insert_va, graph_two_digit>>),
          Cat(<<one_milyun, Zeros(5), insert_va, graph_single_digit>>),
          \* graph_million_with_hundreds / _with_tens / _with_digit
          Cat(<<graph_digit, insert_milyun, Zeros(3), insert_va, graph_three_digit>>),
          Cat(<<graph_digit, insert_milyun, Zeros(4), insert_va, graph_two_digit>>),
          Cat(<<graph_digit, insert_milyun, Zeros(5), insert_va, graph_single_digit>>),
          \* graph_one_million_with_thousands, graph_million_with_thousands
          Cat(<<one_milyun, insert_va, graph_thousands_component>>),
          Cat(<<graph_digit, insert_milyun, insert_va, graph_thousands_component>>)>>)

graph_eight_digit ==
    Alt(<<\* graph_ten_million_zero, graph_ten_million_with_thousands
          Cat(<<graph_two_digit, insert_milyun, Zeros(6)>>),
          Cat(<<graph_two_digit, insert_milyun, insert_va, graph_thousands_component>>)>>)

graph_nine_digit ==
    Alt(<<\* graph_hundred_million_zero, graph_hundred_million_with_thousands
          Cat(<<graph_three_digit, insert_milyun, Zeros(6)>>),
          Cat(<<graph_three_digit, insert_milyun, insert_va, graph_thousands_component>>)>>)

graph_millions_component ==
    Alt(<<graph_seven_digit,
          Cat(<<Zeros(1), graph_six_digit>>),
          Cat(<<Zeros(2), graph_five_digit>>),
          Cat(<<Zeros(3), graph_four_digit>>),
          Cat(<<Zeros(4), graph_three_digit>>),
          Cat(<<Zeros(5), graph_two_digit>>),
          Cat(<<Zeros(6), graph_single_digit>>)>>)

graph_ten_digit ==
    Alt(<<\* graph_billion_single, graph_billion_digit
          Cat(<<one_milyard, Zeros(9)>>),
          Cat(<<graph_digit, insert_milyard, Zeros(9)>>),
          \* graph_one_billion_with_millions, graph_billion_with_millions
          Cat(<<one_milyard, insert_va, graph_millions_component>>),
          Cat(<<graph_digit, insert_milyard, insert_va, graph_millions_component>>)>>)

cardinal_numbers ==
    Alt(<<graph_zero, graph_single_digit, graph_two_digit, graph_three_digit,
          graph_four_digit, graph_five_digit, graph_six_digit, graph_seven_digit,
          graph_eight_digit, graph_nine_digit, graph_ten_digit>>)

\* leading_zeros + cardinal_numbers
cardinal_numbers_with_leading_zeros ==
    Cat(<<Star(Cross(<<"0">>, <<>>)), cardinal_numbers>>)


---------------------------------------------------------------------------
(* text_normalization/fa/graph_utils.py                                    *)

\* NEMO_WHITE_SPACE: space, tab, newline, carriage return, non-breaking space
WhiteSpaceChars == {SP, "\t", "\n", "\r", "nbsp"}
NEMO_WHITE_SPACE == Class(WhiteSpaceChars)
NEMO_NOT_SPACE == NotClass(WhiteSpaceChars)
\* NEMO_PUNCT: string.punctuation
PunctChars == {"!", QUOTE, "#", "$", "%", "&", "'", "(", ")", "*", "+", ",", "-", ".", "/",
               ":", ";", "<", "=", ">", "?", "@", "[", "backslash", "]", "^", "_", "backtick", "{", "|",
               "}", "~"}
\* delete_space = pynutil.delete(closure(NEMO_WHITE_SPACE))
delete_space == DeleteFst(Star(NEMO_WHITE_SPACE))
insert_space == Insert(<<SP>>)
\* A delete_extra_space that copies the whitespace it reads instead of collapsing it.
copy_extra_space == Plus(NEMO_WHITE_SPACE)
\* delete_extra_space = pynini.cross(closure(NEMO_WHITE_SPACE, 1), " ")
delete_extra_space == Cat(<<DeleteFst(Plus(NEMO_WHITE_SPACE)), Insert(<<SP>>)>>)

\* GraphFst.add_tokens: the class body wrapped as  name { body }
add_tokens(name, g) == Cat(<<Insert(<<name, SP, "{", SP>>), g, Insert(<<SP, "}">>)>>)
\* insert(field, space, QUOTE) + g + insert(QUOTE)
Field(field, g) == Cat(<<Insert(<<field, SP, QUOTE>>), g, Insert(<<QUOTE>>)>>)

\* closure(insert(negative: ) + cross(-, QUOTE true QUOTE space), 0, 1)
optional_minus_graph ==
    Opt(Cat(<<Insert(<<"negative:", SP>>), Cross(<<"-">>, <<QUOTE, "true", QUOTE, SP>>)>>))

\* A CardinalFst.fst that reads a cardinal and skips the digits left over after it.
cardinal_fst_truncating ==
    add_tokens("cardinal",
               Cat(<<optional_minus_graph,
                     Field("integer:", Cat(<<cardinal_numbers_with_leading_zeros,
                                             DeleteFst(Star(NEMO_DIGIT))>>))>>))
\* CardinalFst.fst
cardinal_fst ==
    add_tokens("cardinal",
               Cat(<<optional_minus_graph, Field("integer:", cardinal_numbers_with_leading_zeros)>>))

\* The string of a number below 100, without leading zeros: str(x).
NumStr(x) == IF x < 10 THEN <<DigitOf(x)>> ELSE <<DigitOf(x \div 10), DigitOf(x % 10)>>
\* pynini.union(*[str(x) for x in range(a, b + 1)])
Labels(a, b) == UnionOf([k \in 1..(b - a + 1) |-> NumStr(a + k - 1)])
\* (NEMO_DIGIT + NEMO_DIGIT) | (closure(delete(0), 0, 1) + NEMO_DIGIT)
delete_leading_zero ==
    Alt(<<Cat(<<NEMO_DIGIT, NEMO_DIGIT>>), Cat(<<Opt(Delete(<<"0">>)), NEMO_DIGIT>>)>>)

---------------------------------------------------------------------------
(* text_normalization/fa/taggers/decimal.py                                *)

decimal_integer_part(cardinal) == Opt(cardinal.cardinal_numbers)
\* pynini.union(., ٫, ,)
decimal_separator == UnionOf(<< <<".">>, <<"momayyez_sign">>, <<",">> >>)
\* The three graph_fractional_* branches: k digits read as a cardinal, then دهم / صدم / هزارم.
graph_fractional(cardinal) ==
    Alt(<<Cat(<<Compose(NEMO_DIGIT, cardinal.cardinal_numbers_with_leading_zeros),
                Insert(<<SP>>), Insert(<<"dah", "mim">>)>>),
          Cat(<<Compose(Cat(<<NEMO_DIGIT, NEMO_DIGIT>>), cardinal.cardinal_numbers_with_leading_zeros),
                Insert(<<SP>>), Insert(<<"sad", "mim">>)>>),
          Cat(<<Compose(Cat(<<NEMO_DIGIT, NEMO_DIGIT, NEMO_DIGIT>>),
                        cardinal.cardinal_numbers_with_leading_zeros),
                Insert(<<SP>>), Insert(<<"hezar", "mim">>)>>)>>)
\* graph_integer | insert(integer_part: QUOTE صفر QUOTE, weight=0.001)
graph_integer_or_none(cardinal) ==
    Alt(<<Field("integer_part:", decimal_integer_part(cardinal)),
          InsertW(<<"integer_part:", SP, QUOTE, "sefr", QUOTE>>, 1)>>)
graph_fractional_final(cardinal) ==
    Cat(<<Insert(<<"fractional_part:", SP, QUOTE>>), DeleteFst(decimal_separator),
          graph_fractional(cardinal), Insert(<<QUOTE>>)>>)
final_graph_decimal(cardinal) ==
    Cat(<<optional_minus_graph, graph_integer_or_none(cardinal), insert_space, graph_fractional_final(cardinal)>>)
decimal_fst(cardinal) == add_tokens("decimal", final_graph_decimal(cardinal))

---------------------------------------------------------------------------
(* text_normalization/fa/taggers/time.py                                   *)

\* data/time/suffix.tsv: am -> صبح, pm -> بعد از ظهر
suffix_graph ==
    StringMap(<< <<<<"a", "m">>, <<"sobh">>>>,
                 <<<<"p", "m">>, <<"bad", SP, "az", SP, "zohr">>>> >>)
\* graph_hour without the union of the labels 0..23.
graph_hour_unlabelled(cardinal) == Compose(delete_leading_zero, cardinal.cardinal_numbers)
graph_hour(cardinal) == Compose(Compose(delete_leading_zero, Labels(0, 23)), cardinal.cardinal_numbers)
graph_minute(cardinal) ==
    Alt(<<Cat(<<Cross(<<"0">>, <<>>), Compose(Labels(1, 9), cardinal.cardinal_numbers)>>),
          Compose(Labels(10, 59), cardinal.cardinal_numbers),
          \* graph_minute_30, graph_minute_15, graph_minute_45
          Cross(<<"3", "0">>, <<"nim">>),
          Cross(<<"1", "5">>, <<"rob">>),
          Cross(<<"4", "5">>, <<"chehel", SP, "va", SP, "panj">>)>>)
final_graph_hour(cardinal) == Field("hours:", graph_hour(cardinal))
final_graph_minute(cardinal) == Field("minutes:", graph_minute(cardinal))
final_suffix == Field("suffix:", suffix_graph)
final_suffix_optional == Opt(Cat(<<delete_space, insert_space, final_suffix>>))
\* graph_hm (sep = :) and graph_hm_dot (sep = .)
GraphHM(cardinal, sep) ==
    Cat(<<final_graph_hour(cardinal), Delete(<<sep>>),
          Alt(<<Delete(<<"0", "0">>), Cat(<<insert_space, final_graph_minute(cardinal)>>)>>),
          final_suffix_optional>>)
graph_hm(cardinal) == GraphHM(cardinal, ":")
graph_hm_dot(cardinal) == GraphHM(cardinal, ".")
graph_h_suffix(cardinal) == Cat(<<final_graph_hour(cardinal), delete_space, insert_space, final_suffix>>)
time_graph(cardinal) == Alt(<<graph_hm(cardinal), graph_hm_dot(cardinal), graph_h_suffix(cardinal)>>)
time_fst(cardinal) == add_tokens("time", time_graph(cardinal))

---------------------------------------------------------------------------
(* text_normalization/fa/taggers/date.py                                   *)

\* data/date/months_jalali.tsv
months_jalali ==
    StringMap([k \in 1..12 |->
        <<NumStr(k), <<<<"farvardin", "ordibehesht", "khordad", "tir", "mordad", "shahrivar",
                        "mehr", "aban", "azar", "dey", "bahman", "esfand">>[k]>>>>])
\* data/date/months_gregorian.tsv
months_gregorian ==
    StringMap([k \in 1..12 |->
        <<NumStr(k), <<<<"zhanvie", "fevrie", "mars", "avril", "me", "zhuan",
                        "zhuie", "ut", "septambr", "oktobr", "novambr", "desambr">>[k]>>>>])
graph_day(cardinal) == Compose(Compose(delete_leading_zero, Labels(1, 31)), cardinal.cardinal_numbers)
graph_month_num == Compose(delete_leading_zero, Labels(1, 12))
graph_year(cardinal) == Compose(Closure(NEMO_DIGIT, 4, 4), cardinal.cardinal_numbers)
final_day(cardinal) == Field("day:", graph_day(cardinal))
final_month_jalali == Field("month:", Compose(graph_month_num, months_jalali))
final_month_gregorian == Field("month:", Compose(graph_month_num, months_gregorian))
final_year(cardinal) == Field("year:", graph_year(cardinal))
\* The date order whose second separator is either of / and -.
DateOrderAnySecond(first, month, last, sep) ==
    Cat(<<first, Delete(<<sep>>), insert_space, month,
          Alt(<<Delete(<<"/">>), Delete(<<"-">>)>>), insert_space, last>>)
\* first + delete(sep) + insert_space + month + delete(sep) + insert_space + last
DateOrder(first, month, last, sep) ==
    Cat(<<first, Delete(<<sep>>), insert_space, month, Delete(<<sep>>), insert_space, last>>)
date_graph(cardinal) ==
    Alt(<<\* graph_jalali_ymd, graph_jalali_dmy (+0.1)
          DateOrder(final_year(cardinal), final_month_jalali, final_day(cardinal), "/"),
          AddWeight(DateOrder(final_day(cardinal), final_month_jalali, final_year(cardinal), "/"), 100),
          \* graph_gregorian_ymd, graph_gregorian_dmy (+0.1)
          DateOrder(final_year(cardinal), final_month_gregorian, final_day(cardinal), "-"),
          AddWeight(DateOrder(final_day(cardinal), final_month_gregorian, final_year(cardinal), "-"), 100)>>)
date_fst(cardinal) == add_tokens("date", date_graph(cardinal))

---------------------------------------------------------------------------
(* text_normalization/fa/taggers/money.py                                  *)

\* data/money/currency.tsv: $ دلار, € یورو, £ پوند, تومان, ریال
currency_graph ==
    StringMap(<< <<<<"$">>, <<"dolar">>>>, <<<<"euro_sign">>, <<"yuro">>>>,
                 <<<<"pound_sign">>, <<"pond">>>>, <<<<"toman">>, <<"toman">>>>,
                 <<<<"rial">>, <<"rial">>>> >>)
graph_currency == Field("currency:", currency_graph)
money_graph_integer(cardinal) == Field("integer_part:", cardinal.cardinal_numbers_with_leading_zeros)
\* delete(union(",", " ", "،"))
delete_separator == DeleteFst(UnionOf(<< <<",">>, <<SP>>, <<"fa_comma">> >>))
number_with_separator ==
    Cat(<<Plus(NEMO_DIGIT), Star(Cat(<<delete_separator, Closure(NEMO_DIGIT, 3, 3)>>))>>)
graph_integer_with_sep(cardinal) ==
    Field("integer_part:", Compose(number_with_separator, cardinal.cardinal_numbers_with_leading_zeros))
graph_symbol_before(cardinal) ==
    Cat(<<graph_currency, insert_space, Alt(<<money_graph_integer(cardinal), graph_integer_with_sep(cardinal)>>)>>)
graph_symbol_after(cardinal) ==
    Cat(<<Alt(<<money_graph_integer(cardinal), graph_integer_with_sep(cardinal)>>), Opt(Delete(<<SP>>)),
          insert_space, graph_currency>>)
graph_decimal_money(cardinal) ==
    Cat(<<graph_currency, insert_space,
          Field("integer_part:", cardinal.cardinal_numbers_with_leading_zeros),
          Delete(<<".">>), insert_space,
          Field("fractional_part:",
                Compose(Closure(NEMO_DIGIT, 1, 2), cardinal.cardinal_numbers_with_leading_zeros))>>)
money_graph(cardinal) ==
    Alt(<<graph_symbol_before(cardinal), graph_symbol_after(cardinal), AddWeight(graph_decimal_money(cardinal), 100)>>)
money_fst(cardinal) == add_tokens("money", money_graph(cardinal))

---------------------------------------------------------------------------
(* text_normalization/fa/taggers/measure.py                                *)

\* data/measure/measurements.tsv: kg کیلوگرم, °C درجه سانتی‌گراد, کیلومتر
unit_graph ==
    StringMap(<< <<<<"k", "g">>, <<"kilugeram">>>>,
                 <<<<"degree_sign", "C">>, <<"daraje", SP, "santigerad">>>>,
                 <<<<"kilumetr">>, <<"kilumetr">>>> >>)
graph_unit == Field("units:", unit_graph)
\* closure(cross("-", "منفی "), 0, 1)
optional_negative == Opt(Cross(<<"-">>, <<"manfi", SP>>))
graph_cardinal_with_neg(cardinal) ==
    Cat(<<Insert(<<"cardinal", SP, "{", SP, "integer:", SP, QUOTE>>), optional_negative,
          cardinal.cardinal_numbers, Insert(<<QUOTE, SP, "}">>)>>)
graph_number_unit(cardinal) ==
    Cat(<<graph_cardinal_with_neg(cardinal), Opt(Delete(<<SP>>)), insert_space, graph_unit>>)
graph_unit_number(cardinal) ==
    Cat(<<graph_unit, Opt(Delete(<<SP>>)), insert_space, graph_cardinal_with_neg(cardinal)>>)
graph_percentage(cardinal) ==
    Cat(<<Insert(<<"cardinal", SP, "{", SP, "integer:", SP, QUOTE>>), cardinal.cardinal_numbers,
          Insert(<<QUOTE, SP, "}">>), Delete(<<"%">>),
          Insert(<<SP, "units:", SP, QUOTE, "darsad", QUOTE>>)>>)
graph_decimal_unit(cardinal) ==
    Cat(<<Insert(<<"decimal", SP, "{", SP>>), final_graph_decimal(cardinal), Insert(<<SP, "}">>),
          Opt(Delete(<<SP>>)), insert_space, graph_unit>>)
measure_graph(cardinal) ==
    Alt(<<graph_number_unit(cardinal), graph_percentage(cardinal), AddWeight(graph_unit_number(cardinal), 100),
          AddWeight(graph_decimal_unit(cardinal), 100)>>)
measure_fst(cardinal) == add_tokens("measure", measure_graph(cardinal))

---------------------------------------------------------------------------
(* text_normalization/fa/taggers/ordinal.py                                *)

\* delete(union("ام", "م"))
persian_suffix == DeleteFst(UnionOf(<< <<"alef", "mim">>, <<"mim">> >>))
\* delete(union("st", "nd", "rd", "th", "ST", "ND", "RD", "TH"))
english_suffix ==
    DeleteFst(UnionOf(<< <<"s", "t">>, <<"n", "d">>, <<"r", "d">>, <<"t", "h">>,
                         <<"S", "T">>, <<"N", "D">>, <<"R", "D">>, <<"T", "H">> >>))
\* 1 اول, 2 دوم, 3 سوم, 4 چهارم, ... 20 بیستم
direct_ordinals ==
    StringMap([k \in 1..20 |->
        <<NumStr(k),
          << <<"avval">>, <<"do", "mim">>, <<"sevom">>, <<"chahar", "mim">>, <<"panj", "mim">>,
             <<"shesh", "mim">>, <<"haft", "mim">>, <<"hasht", "mim">>, <<"noh", "mim">>,
             <<"dah", "mim">>, <<"yazdah", "mim">>, <<"davazdah", "mim">>,
             <<"sizdah", "mim">>, <<"chahardah", "mim">>, <<"panzdah", "mim">>,
             <<"shanzdah", "mim">>, <<"hefdah", "mim">>, <<"hejdah", "mim">>,
             <<"nuzdah", "mim">>, <<"bist", "mim">> >>[k]>>])
cardinal_with_suffix(cardinal) == Cat(<<cardinal.cardinal_numbers, Insert(<<"mim">>)>>)
\* graph_persian (suffix = persian_suffix) and graph_english (suffix = english_suffix)
OrdinalWith(cardinal, suffix) ==
    Alt(<<Cat(<<Compose(Closure(NEMO_DIGIT, 1, 2), direct_ordinals), suffix>>),
          Cat(<<Compose(Plus(NEMO_DIGIT), cardinal_with_suffix(cardinal)), suffix>>)>>)
ordinal_graph(cardinal) == Alt(<<OrdinalWith(cardinal, persian_suffix), OrdinalWith(cardinal, english_suffix)>>)
ordinal_fst(cardinal) == add_tokens("ordinal", Field("integer:", ordinal_graph(cardinal)))

---------------------------------------------------------------------------
(* text_normalization/fa/taggers/fraction.py                               *)

\* data/number/denominator.tsv: 2 دوم, 3 سوم, 4 چهارم, ... 10 دهم
graph_denominator ==
    StringMap([k \in 1..9 |->
        <<NumStr(k + 1),
          << <<"do", "mim">>, <<"sevom">>, <<"chahar", "mim">>, <<"panj", "mim">>,
             <<"shesh", "mim">>, <<"haft", "mim">>, <<"hasht", "mim">>, <<"noh", "mim">>,
             <<"dah", "mim">> >>[k]>>])
graph_numerator(cardinal) == Field("numerator:", cardinal.cardinal_numbers)
graph_denom_small == Field("denominator:", graph_denominator)
graph_denom_large(cardinal) ==
    Cat(<<Insert(<<"denominator:", SP, QUOTE>>), cardinal.cardinal_numbers, Insert(<<"mim", QUOTE>>)>>)
\* cross("/", QUOTE space) | cross(" / ", QUOTE space)
divider ==
    Alt(<<Cross(<<"/">>, <<QUOTE, SP>>), Cross(<<SP, "/", SP>>, <<QUOTE, SP>>)>>)
small_denom == Labels(2, 10)
graph_fraction_small(cardinal) == Cat(<<graph_numerator(cardinal), divider, Compose(small_denom, graph_denom_small)>>)
graph_fraction_large(cardinal) == Cat(<<graph_numerator(cardinal), divider, graph_denom_large(cardinal)>>)
fraction_graph(cardinal) == Alt(<<graph_fraction_small(cardinal), AddWeight(graph_fraction_large(cardinal), 100)>>)
fraction_integer_part(cardinal) ==
    Cat(<<Insert(<<"integer_part:", SP, QUOTE>>), cardinal.cardinal_numbers, Insert(<<QUOTE, SP>>)>>)
optional_integer(cardinal) == Opt(Cat(<<fraction_integer_part(cardinal), Delete(<<SP>>)>>))
\* half | quarter | three_quarters
special_fractions ==
    Alt(<<Cross(<<"1", "/", "2">>,
                <<"numerator:", SP, QUOTE, "yek", QUOTE, SP,
                  "denominator:", SP, QUOTE, "do", "mim", QUOTE>>),
          Cross(<<"1", "/", "4">>,
                <<"numerator:", SP, QUOTE, "yek", QUOTE, SP,
                  "denominator:", SP, QUOTE, "chahar", "mim", QUOTE>>),
          Cross(<<"3", "/", "4">>,
                <<"numerator:", SP, QUOTE, "se", QUOTE, SP,
                  "denominator:", SP, QUOTE, "chahar", "mim", QUOTE>>)>>)
fraction_full_graph(cardinal) == Cat(<<optional_integer(cardinal), Alt(<<special_fractions, fraction_graph(cardinal)>>)>>)
fraction_fst(cardinal) == add_tokens("fraction", fraction_full_graph(cardinal))

---------------------------------------------------------------------------
(* text_normalization/fa/taggers/tokenize_and_classify.py                  *)

\* WordFst: the catch-all grammar, any run of non-space characters that is
\* not a digit string, tagged  name: QUOTE word QUOTE
word_fst == Field("name:", Difference(Plus(NEMO_NOT_SPACE), Plus(NEMO_DIGIT)))
\* PunctuationFst: one punctuation mark, tagged  name: QUOTE mark QUOTE
punct_fst == Field("name:", Class(PunctChars))

\* The class weights of ClassifyFst, in thousandths (1.0 is 1000).
TimeWeight == 1000
DateWeight == 1000
MoneyWeight == 1000
MeasureWeight == 1000
OrdinalWeight == 1050
FractionWeight == 1050
DecimalWeight == 1100
CardinalWeight == 1100
\* A Word grammar weighted like the time grammar.
WordWeightAsTime == TimeWeight
\* The weight of the Word grammar: pynutil.add_weight(word_graph, 100)
WordWeight == 100000
\* The weight of a punctuation token: pynutil.add_weight(punct_graph, weight=1.1)
PunctWeight == 1100
\* The weight of the whitespace between tokens: pynutil.add_weight(delete_extra_space, 1.1)
JoinWeight == 1100

\* classify: the weighted union of the class grammars
classify(cardinal) ==
    Alt(<<AddWeight(time_fst(cardinal), TimeWeight),
          AddWeight(date_fst(cardinal), DateWeight),
          AddWeight(money_fst(cardinal), MoneyWeight),
          AddWeight(measure_fst(cardinal), MeasureWeight),
          AddWeight(ordinal_fst(cardinal), OrdinalWeight),
          AddWeight(fraction_fst(cardinal), FractionWeight),
          AddWeight(decimal_fst(cardinal), DecimalWeight),
          AddWeight(cardinal.fst, CardinalWeight),
          AddWeight(word_fst, WordWeight)>>)

tokens_open == Insert(<<"tokens", SP, "{", SP>>)
tokens_close == Insert(<<SP, "}">>)
punct == Cat(<<tokens_open, AddWeight(punct_fst, PunctWeight), tokens_close>>)
token(cardinal) == Cat(<<tokens_open, classify(cardinal), tokens_close>>)
token_plus_punct(cardinal) ==
    Cat(<<Star(Cat(<<punct, Insert(<<SP>>)>>)), token(cardinal), Star(Cat(<<Insert(<<SP>>), punct>>))>>)
\* ClassifyFst.fst = delete_space + graph + delete_space
classify_fst(cardinal) ==
    Cat(<<delete_space,
          token_plus_punct(cardinal),
          Star(Cat(<<AddWeight(delete_extra_space, JoinWeight), token_plus_punct(cardinal)>>)),
          delete_space>>)

\* The CardinalFst object the other taggers are built from (self.cardinal).
CardinalFst ==
    [cardinal_numbers |-> cardinal_numbers,
     cardinal_numbers_with_leading_zeros |-> cardinal_numbers_with_leading_zeros,
     fst |-> cardinal_fst]
\* The grammars ClassifyFst.__init__ builds from it: the fst of each tagger.
DecimalFst_fst == decimal_fst(CardinalFst)
OrdinalFst_fst == ordinal_fst(CardinalFst)
FractionFst_fst == fraction_fst(CardinalFst)
TimeFst_fst == time_fst(CardinalFst)
DateFst_fst == date_fst(CardinalFst)
MoneyFst_fst == money_fst(CardinalFst)
MeasureFst_fst == measure_fst(CardinalFst)
\* ClassifyFst.fst
ClassifyFst_fst == classify_fst(CardinalFst)

---------------------------------------------------------------------------
(* inverse_text_normalization/fa/taggers/cardinal.py                       *)

\* self.graph = pynini.invert(tn_cardinal.cardinal_numbers)
itn_cardinal_graph == Invert(cardinal_numbers)

---------------------------------------------------------------------------
(* GraphFst.delete_tokens and the field pattern of the ITN verbalizers.    *)

NEMO_NOT_QUOTE == NotClass({QUOTE})

\* delete_tokens strips the wrapper add_tokens wrote: the class name, the
\* braces and the spaces inside them.
delete_tokens(name, g) ==
    Cat(<<Delete(<<name>>), delete_space, Delete(<<"{">>), delete_space, g,
          delete_space, Delete(<<"}">>)>>)

\* delete("field:") + delete_space + delete('"') + closure(NEMO_NOT_QUOTE, 1) + delete('"')
DeleteField(field) ==
    Cat(<<Delete(<<field>>), delete_space, Delete(<<QUOTE>>), Plus(NEMO_NOT_QUOTE),
          Delete(<<QUOTE>>)>>)

---------------------------------------------------------------------------
(* inverse_text_normalization/fa/verbalizers/time.py                       *)

itnv_hours_graph == DeleteField("hours:")
itnv_minutes_graph == DeleteField("minutes:")

\* The verbalizer without the ':00' default: a minutes field is required.
itnv_required_minutes == Cat(<<Insert(<<":">>), delete_space, itnv_minutes_graph>>)

itnv_optional_minutes ==
    Alt(<<Cat(<<Insert(<<":">>), delete_space, itnv_minutes_graph>>),
          Insert(<<":", "0", "0">>)>>)

itnv_suffix_graph == DeleteField("suffix:")
itnv_optional_suffix == Opt(Cat(<<Insert(<<SP>>), delete_space, itnv_suffix_graph>>))

itnv_time_graph == Cat(<<itnv_hours_graph, itnv_optional_minutes, itnv_optional_suffix>>)
itnv_time_fst == delete_tokens("time", itnv_time_graph)

---------------------------------------------------------------------------
(* inverse_text_normalization/fa/verbalizers/date.py                       *)

itnv_day_graph == DeleteField("day:")
itnv_month_graph == DeleteField("month:")
itnv_year_graph == DeleteField("year:")

\* A date verbalizer writing dashes.
itnv_dash == Insert(<<"-">>)
\* pynutil.insert("/")
itnv_slash == Insert(<<"/">>)

itnv_date_graph ==
    Cat(<<itnv_day_graph, itnv_slash, delete_space, itnv_month_graph,
          itnv_slash, delete_space, itnv_year_graph>>)
itnv_date_fst == delete_tokens("date", itnv_date_graph)

---------------------------------------------------------------------------
(* inverse_text_normalization/fa/verbalizers/measure.py                    *)

itnv_cardinal_graph ==
    Cat(<<Delete(<<"cardinal", SP, "{">>), delete_space, DeleteField("integer:"),
          delete_space, Delete(<<"}">>)>>)
itnv_units_graph == DeleteField("units:")

\* no_space_units is assigned and never used.
no_space_units == UnionOf(<< <<"%">>, <<"degree_sign", "C">>, <<"degree_sign", "F">> >>)

itnv_measure_graph ==
    Cat(<<itnv_cardinal_graph, Insert(<<SP>>), delete_space, itnv_units_graph>>)
itnv_measure_fst == delete_tokens("measure", itnv_measure_graph)

---------------------------------------------------------------------------
(* inverse_text_normalization/fa/taggers/money.py                          *)

itn_currency_map ==
    StringMap(<< <<<<"dolar">>, <<"$">>>>, <<<<"yuro">>, <<"euro_sign">>>>,
                 <<<<"pond">>, <<"pound_sign">>>>, <<<<"yen">>, <<"yen_sign">>>>,
                 <<<<"rial">>, <<"rial">>>>, <<<<"toman">>, <<"toman">>>> >>)

itn_money_graph_integer == Field("integer_part:", itn_cardinal_graph)
itn_money_graph_currency == Field("currency:", itn_currency_map)
itn_money_final_graph ==
    Cat(<<itn_money_graph_integer, Delete(<<SP>>), insert_space, itn_money_graph_currency>>)
itn_money_fst == add_tokens("money", itn_money_final_graph)

---------------------------------------------------------------------------
(* inverse_text_normalization/fa/verbalizers/money.py                      *)

itnv_integer_graph == DeleteField("integer_part:")

symbol_currencies ==
    UnionOf(<< <<"$">>, <<"euro_sign">>, <<"pound_sign">>, <<"yen_sign">> >>)
itnv_currency_symbol ==
    Cat(<<Delete(<<"currency:">>), delete_space, Delete(<<QUOTE>>), symbol_currencies,
          Delete(<<QUOTE>>)>>)

word_currencies == UnionOf(<< <<"toman">>, <<"rial">> >>)
itnv_currency_word ==
    Cat(<<Delete(<<"currency:">>), delete_space, Delete(<<QUOTE>>), word_currencies,
          Delete(<<QUOTE>>)>>)

itnv_graph_symbol == Cat(<<itnv_currency_symbol, delete_space, itnv_integer_graph>>)
itnv_graph_word ==
    Cat(<<itnv_integer_graph, Insert(<<SP>>), delete_space, itnv_currency_word>>)
itnv_money_graph == Alt(<<itnv_graph_symbol, itnv_graph_word>>)
itnv_money_fst == delete_tokens("money", itnv_money_graph)

---------------------------------------------------------------------------
(* text_normalization/fa/verbalizers/decimal.py                            *)

tnv_optional_sign ==
    Opt(Cat(<<Delete(<<"negative:", SP>>), Delete(<<QUOTE>>),
              Cross(<<"true">>, <<"manfi", SP>>), Delete(<<QUOTE>>), delete_space>>))
tnv_integer_part ==
    Cat(<<Delete(<<"integer_part:", SP, QUOTE>>), Plus(NEMO_NOT_QUOTE), Delete(<<QUOTE>>)>>)
tnv_fractional_part ==
    Cat(<<Delete(<<"fractional_part:", SP, QUOTE>>), Plus(NEMO_NOT_QUOTE), Delete(<<QUOTE>>)>>)
\* insert(" ممیز ")
tnv_decimal_point == Insert(<<SP, "momayyez", SP>>)
tnv_decimal_graph ==
    Cat(<<tnv_optional_sign, tnv_integer_part, tnv_decimal_point, delete_space,
          tnv_fractional_part>>)
tnv_decimal_fst == delete_tokens("decimal", tnv_decimal_graph)

---------------------------------------------------------------------------
(* inverse_text_normalization/fa/taggers/decimal.py                        *)

itn_integer_graph(tn_decimal) == Invert(tn_decimal.integer_part)
itn_fractional_graph(tn_decimal) == Invert(tn_decimal.graph_fractional)

\* closure(insert("negative: ") + cross("منفی", '"-"') + delete(NEMO_SPACE), 0, 1)
itn_optional_minus_graph ==
    Opt(Cat(<<Insert(<<"negative:", SP>>), Cross(<<"manfi">>, <<QUOTE, "-", QUOTE>>),
              Delete(<<SP>>)>>))

\* A separator that is copied to the output instead of deleted.
itn_decimal_separator_kept == Accep(<<SP, "momayyez", SP>>)
\* delete(" ممیز ")
itn_decimal_separator == Delete(<<SP, "momayyez", SP>>)

itn_decimal_final_graph(tn_decimal) ==
    Cat(<<itn_optional_minus_graph,
          Field("integer_part:", itn_integer_graph(tn_decimal)),
          itn_decimal_separator, insert_space,
          Field("fractional_part:", itn_fractional_graph(tn_decimal))>>)
itn_decimal_fst(tn_decimal) == add_tokens("decimal", itn_decimal_final_graph(tn_decimal))

\* The TN DecimalFst handed to the ITN tagger.
DecimalFst ==
    [integer_part |-> decimal_integer_part(CardinalFst),
     graph_fractional |-> graph_fractional(CardinalFst)]
ItnDecimalFst_fst == itn_decimal_fst(DecimalFst)

---------------------------------------------------------------------------
(* inverse_text_normalization/fa/verbalizers/decimal.py                    *)

itnv_negative_graph == DeleteField("negative:")
itnv_optional_negative == Opt(Cat(<<itnv_negative_graph, delete_space>>))
itnv_decimal_graph ==
    Cat(<<itnv_optional_negative, itnv_integer_graph, Insert(<<".">>), delete_space,
          DeleteField("fractional_part:")>>)
itnv_decimal_fst == delete_tokens("decimal", itnv_decimal_graph)

---------------------------------------------------------------------------
(* text_normalization/fa/verbalizers/money.py                              *)

tnv_money_integer_part ==
    Cat(<<Delete(<<"integer_part:", SP, QUOTE>>), Plus(NEMO_NOT_QUOTE), Delete(<<QUOTE>>)>>)
tnv_money_fractional_part ==
    Cat(<<Delete(<<"fractional_part:", SP, QUOTE>>), Plus(NEMO_NOT_QUOTE), Delete(<<QUOTE>>)>>)
tnv_money_currency ==
    Cat(<<Delete(<<"currency:", SP, QUOTE>>), Plus(NEMO_NOT_QUOTE), Delete(<<QUOTE>>)>>)

graph_amount_currency ==
    Cat(<<tnv_money_integer_part, delete_space, insert_space, tnv_money_currency>>)
graph_currency_amount ==
    Cat(<<tnv_money_currency, delete_space, insert_space, tnv_money_integer_part>>)
graph_with_fractional ==
    Cat(<<tnv_money_integer_part, Insert(<<SP, "va", SP>>), delete_space,
          tnv_money_fractional_part, delete_space, insert_space, tnv_money_currency>>)

tnv_money_graph ==
    Alt(<<graph_amount_currency, graph_currency_amount, AddWeight(graph_with_fractional, 100)>>)
tnv_money_fst == delete_tokens("money", tnv_money_graph)

---------------------------------------------------------------------------
(* inverse_text_normalization/fa/taggers/cardinal.py (CardinalFst.fst; the *)
(* optional_minus_graph of cardinal.py and of decimal.py are the same      *)
(* expression, itn_optional_minus_graph).                                  *)

itn_cardinal_final_graph ==
    Cat(<<itn_optional_minus_graph, Insert(<<"integer:", SP, QUOTE>>), itn_cardinal_graph,
          Insert(<<QUOTE>>)>>)
itn_cardinal_fst == add_tokens("cardinal", itn_cardinal_final_graph)

---------------------------------------------------------------------------
(* text_normalization/fa/verbalizers/fraction.py                           *)

tnv_fraction_integer_part ==
    Cat(<<Delete(<<"integer_part:", SP, QUOTE>>), Plus(NEMO_NOT_QUOTE), Delete(<<QUOTE>>)>>)
tnv_optional_integer ==
    Opt(Cat(<<tnv_fraction_integer_part, Insert(<<SP, "va", SP>>), Delete(<<SP>>)>>))
tnv_numerator ==
    Cat(<<Delete(<<"numerator:", SP, QUOTE>>), Plus(NEMO_NOT_QUOTE), Delete(<<QUOTE>>)>>)
tnv_denominator ==
    Cat(<<Delete(<<"denominator:", SP, QUOTE>>), Plus(NEMO_NOT_QUOTE), Delete(<<QUOTE>>)>>)
tnv_fraction_graph ==
    Cat(<<tnv_optional_integer, tnv_numerator, insert_space, Delete(<<SP>>), tnv_denominator>>)
tnv_fraction_fst == delete_tokens("fraction", tnv_fraction_graph)

---------------------------------------------------------------------------
(* inverse_text_normalization/fa/verbalizers/verbalize.py and              *)
(* verbalize_final.py                                                      *)

\* The verbalizers of cardinal, fraction and word tokens that VerbalizeFst
\* imports: the fields of the token, rendered in their order.
itnv_cardinal_fst ==
    delete_tokens("cardinal",
                  Cat(<<Opt(Cat(<<DeleteField("negative:"), delete_space>>)), DeleteField("integer:")>>))
itnv_fraction_fst ==
    delete_tokens("fraction",
                  Cat(<<Opt(Cat(<<DeleteField("integer_part:"), Insert(<<SP, "va", SP>>), delete_space>>)),
                        DeleteField("numerator:"), Insert(<<SP>>), delete_space,
                        DeleteField("denominator:")>>))
itnv_word_fst == DeleteField("name:")
\* VerbalizeFst.fst: the union of the class verbalizers.
itnv_verbalize_fst ==
    Alt(<<itnv_cardinal_fst, itnv_decimal_fst, itnv_fraction_fst, itnv_time_fst, itnv_date_fst,
          itnv_money_fst, itnv_measure_fst, itnv_word_fst>>)

\* A word graph that deletes the field name and keeps the quotes.
itnv_final_word_quoted ==
    Cat(<<Delete(<<"name:">>), delete_space, Accep(<<QUOTE>>), Plus(NEMO_NOT_QUOTE), Accep(<<QUOTE>>)>>)
\* delete("name:") + delete_space + delete(QUOTE) + closure(NEMO_NOT_QUOTE, 1) + delete(QUOTE)
itnv_final_word ==
    Cat(<<Delete(<<"name:">>), delete_space, Delete(<<QUOTE>>), Plus(NEMO_NOT_QUOTE),
          Delete(<<QUOTE>>)>>)
itnv_final_types == Alt(<<itnv_verbalize_fst, itnv_final_word>>)
itnv_final_token ==
    Cat(<<Delete(<<"tokens", SP, "{", SP>>), itnv_final_types, Delete(<<SP, "}">>)>>)
\* delete_space + token + closure(delete_extra_space + token) + delete_space
itnv_final_graph ==
    Cat(<<delete_space, itnv_final_token, Star(Cat(<<delete_extra_space, itnv_final_token>>)),
          delete_space>>)

---------------------------------------------------------------------------
(* State: one application of a grammar to one input.                       *)

VARIABLES
    input,    \* the string given to the grammar
    stage,    \* start, then the name of the last grammar applied
    result,   \* the set of <<output, weight>> pairs of the last grammar applied to input
    pick,     \* the TN output handed on to the ITN grammar
    back,     \* the set of <<output, weight>> pairs of the ITN grammar applied to pick
    files,    \* the FAR files on disk: the set of <<path, archive>> pairs
    obj,      \* the grammar object under construction or last constructed
    log       \* the ClassifyFst constructions completed so far, oldest first

vars == <<input, stage, result, pick, back, files, obj, log>>

\* No grammar object is being constructed.
NoObject == [class |-> "none", at |-> "none"]
NoConstruction == files = {} /\ obj = NoObject /\ log = <<>>
\* No string is being processed.
NoText == input = <<>> /\ stage = "start" /\ result = {} /\ pick = <<>> /\ back = {}

---------------------------------------------------------------------------
(* CardinalSpec: a digit string read by the TN cardinal graph, and one of   *)
(* its readings written back by the ITN cardinal graph.                    *)

\* The digits the inputs of CardinalSpec are written with are 0..MaxDigit.
MaxDigit == 2
\* The inputs of CardinalSpec have 1..MaxLen digits.
MaxLen == 7

DigitStrings ==
    UNION {[1..n -> {DigitOf(d) : d \in 0..MaxDigit}] : n \in 1..MaxLen}

CardinalInit ==
    /\ input \in DigitStrings
    /\ stage = "start"
    /\ result = {}
    /\ pick = <<>>
    /\ back = {}
    /\ NoConstruction

\* CardinalFst.cardinal_numbers applied to a digit string.
TNCardinal ==
    /\ stage = "start"
    /\ result' = Apply(cardinal_numbers, input)
    /\ stage' = "tn_cardinal"
    /\ UNCHANGED <<input, pick, back>>
    /\ UNCHANGED <<files, obj, log>>

\* The ITN CardinalFst.graph applied to one spoken form the TN graph produced.
ITNCardinal ==
    /\ stage = "tn_cardinal"
    /\ \E r \in result :
          /\ pick' = r[1]
          /\ back' = Apply(itn_cardinal_graph, r[1])
    /\ stage' = "itn_cardinal"
    /\ UNCHANGED <<input, result>>
    /\ UNCHANGED <<files, obj, log>>

CardinalNext == TNCardinal \/ ITNCardinal
CardinalSpec == CardinalInit /\ [][CardinalNext]_vars

---------------------------------------------------------------------------
(* ClassifySpec: one sentence typed chunk by chunk, then classified by      *)
(* ClassifyFst.fst.                                                        *)

\* A sentence holds at most MaxChunks whitespace-free chunks.
MaxChunks == 2
\* A chunk is typed only while the sentence stays within MaxSentence symbols.
MaxSentence == 14

\* The whitespace-free chunks a sentence is made of.
Chunks ==
    { <<"1", "0", "0", "0">>,                       \* cardinal
      <<"3", ".", "1", "4">>,                       \* decimal
      <<"3", ":", "3", "0">>,                       \* time
      <<"1", "/", "2">>,                            \* fraction
      <<"2", "mim">>,                               \* ordinal
      <<"5", "%">>,                                 \* measure
      <<"$", "7">>,                                 \* money, symbol first
      <<"toman">>,                                  \* a currency word
      <<"a", "b">>,                                 \* word
      <<"(", "8", ")">>,                            \* punctuation around a cardinal
      <<"1", "2", "3", "4", "5", "6", "7", "8", "9", "0", "1">> }  \* 11 digits
\* The whitespace before the first chunk and after the last one.
Margins == {<<>>, <<SP>>, <<"\t", "\n">>}
\* The whitespace between two chunks.
Gaps == {<<SP>>, <<"nbsp", SP>>}

\* The whitespace-free chunks of the string s, in order.
RECURSIVE ChunksFrom(_, _, _)
ChunksFrom(s, k, cur) ==
    IF k > Len(s) THEN (IF cur = <<>> THEN <<>> ELSE <<cur>>)
    ELSE IF s[k] \in WhiteSpaceChars
         THEN (IF cur = <<>> THEN <<>> ELSE <<cur>>) \o ChunksFrom(s, k + 1, <<>>)
         ELSE ChunksFrom(s, k + 1, Append(cur, s[k]))
ChunksOf(s) == ChunksFrom(s, 1, <<>>)

ClassifyInit ==
    /\ input \in Margins
    /\ stage = "typing"
    /\ result = {}
    /\ pick = <<>>
    /\ back = {}
    /\ NoConstruction

\* One more chunk is typed, after a gap when it is not the first.
TypeChunk ==
    /\ stage = "typing"
    /\ Len(ChunksOf(input)) < MaxChunks
    /\ \E c \in Chunks, g \in Gaps :
          /\ input' = IF ChunksOf(input) = <<>> THEN input \o c ELSE input \o g \o c
          /\ Len(input') <= MaxSentence
    /\ UNCHANGED <<stage, result, pick, back>>
    /\ UNCHANGED <<files, obj, log>>

\* ClassifyFst.fst applied to the sentence and the whitespace after it.
Classify ==
    /\ stage = "typing"
    /\ ChunksOf(input) # <<>>
    /\ \E m \in Margins :
          /\ input' = input \o m
          /\ result' = Apply(ClassifyFst_fst, input')
    /\ stage' = "classified"
    /\ UNCHANGED <<pick, back>>
    /\ UNCHANGED <<files, obj, log>>

ClassifyNext == TypeChunk \/ Classify
ClassifySpec == ClassifyInit /\ [][ClassifyNext]_vars

---------------------------------------------------------------------------
(* TimeSpec: a clock time H:MM typed and tagged by TimeFst.fst.            *)

\* The hours typed are 0..MaxHour.
MaxHour == 3

TimeInit ==
    /\ input \in {NumStr(h) \o <<":">> : h \in 0..MaxHour}
    /\ stage = "hour"
    /\ result = {}
    /\ pick = <<>>
    /\ back = {}
    /\ NoConstruction

\* The two digits of the minutes are typed.
TypeMinutes ==
    /\ stage = "hour"
    /\ \E m \in 0..59 : input' = input \o <<DigitOf(m \div 10), DigitOf(m % 10)>>
    /\ stage' = "typed"
    /\ UNCHANGED <<result, pick, back>>
    /\ UNCHANGED <<files, obj, log>>

\* TimeFst.fst applied to H:MM.
TagTime ==
    /\ stage = "typed"
    /\ result' = Apply(TimeFst_fst, input)
    /\ stage' = "tn_time"
    /\ UNCHANGED <<input, pick, back>>
    /\ UNCHANGED <<files, obj, log>>

TimeNext == TypeMinutes \/ TagTime
TimeSpec == TimeInit /\ [][TimeNext]_vars

---------------------------------------------------------------------------
(* ItnVerbalizeSpec: one structured token handed to an ITN verbalizer.     *)

\* name { body }
ClassBlock(name, body) == <<name, SP, "{", SP>> \o body \o <<SP, "}">>
\* field: "value"
Pair(field, v) == <<field, SP, QUOTE>> \o v \o <<QUOTE>>
\* The pair of a field that may be absent (the empty value), after a space.
MorePair(field, v) == IF v = <<>> THEN <<>> ELSE <<SP>> \o Pair(field, v)

TokenHours == {<<"5">>, <<"1", "2">>, <<"3">>}
TokenMinutes == {<<>>, <<"3", "0">>, <<"0", "5">>, <<"0", "0">>}
TokenSuffixes == {<<>>, <<"p", "m">>, <<"a", "m">>}
TimeToken(h, m, x) ==
    ClassBlock("time", Pair("hours:", h) \o MorePair("minutes:", m) \o MorePair("suffix:", x))
TimeTokens == {TimeToken(h, m, x) : h \in TokenHours, m \in TokenMinutes, x \in TokenSuffixes}

TokenDays == {<<"1", "5">>, <<"0", "1">>, <<"7">>}
TokenMonths == {<<"0", "5">>, <<"1", "2">>}
TokenYears == {<<"1", "4", "0", "2">>, <<"2", "0", "2", "3">>}
DateToken(d, m, y) ==
    ClassBlock("date", Pair("day:", d) \o MorePair("month:", m) \o MorePair("year:", y))
DateTokens == {DateToken(d, m, y) : d \in TokenDays, m \in TokenMonths, y \in TokenYears}

TokenIntegers == {<<"5", "0">>, <<"1", "0", "0">>, <<"7">>}
NoSpaceUnits == {<<"%">>, <<"degree_sign", "C">>, <<"degree_sign", "F">>}
SpacedUnits == {<<"k", "g">>, <<"k", "m">>, <<"m">>}
MeasureToken(n, u) ==
    ClassBlock("measure",
               <<"cardinal", SP, "{", SP>> \o Pair("integer:", n) \o <<SP, "}">>
                   \o MorePair("units:", u))
MeasureTokens == {MeasureToken(n, u) : n \in TokenIntegers, u \in NoSpaceUnits \cup SpacedUnits}

ItnVerbalizeInit ==
    /\ input \in TimeTokens \cup DateTokens \cup MeasureTokens
    /\ stage = "start"
    /\ result = {}
    /\ pick = <<>>
    /\ back = {}
    /\ NoConstruction

\* verbalizers/time.py TimeFst.fst applied to the token.
VerbalizeTime ==
    /\ stage = "start"
    /\ result' = Apply(itnv_time_fst, input)
    /\ stage' = "itnv_time"
    /\ UNCHANGED <<input, pick, back>>
    /\ UNCHANGED <<files, obj, log>>

\* verbalizers/date.py DateFst.fst applied to the token.
VerbalizeDate ==
    /\ stage = "start"
    /\ result' = Apply(itnv_date_fst, input)
    /\ stage' = "itnv_date"
    /\ UNCHANGED <<input, pick, back>>
    /\ UNCHANGED <<files, obj, log>>

\* verbalizers/measure.py MeasureFst.fst applied to the token.
VerbalizeMeasure ==
    /\ stage = "start"
    /\ result' = Apply(itnv_measure_fst, input)
    /\ stage' = "itnv_measure"
    /\ UNCHANGED <<input, pick, back>>
    /\ UNCHANGED <<files, obj, log>>

ItnVerbalizeNext == VerbalizeTime \/ VerbalizeDate \/ VerbalizeMeasure
ItnVerbalizeSpec == ItnVerbalizeInit /\ [][ItnVerbalizeNext]_vars

---------------------------------------------------------------------------
(* ItnMoneySpec: a spoken amount and currency tagged by the ITN money       *)
(* tagger, and one tagged token rendered by the ITN money verbalizer.      *)

MoneyAmounts ==
    {<<"1", "0", "0">>, <<"1", "0", "0", "0">>, <<"5", "0">>, <<"7">>, <<"2", "1">>,
     <<"1", "4", "0", "2">>, <<"1", "2">>, <<"3", "0", "0">>}
SpokenCurrencies == {<<"dolar">>, <<"yuro">>, <<"pond">>, <<"yen">>, <<"rial">>, <<"toman">>}
SymbolCurrencies == {<<"$">>, <<"euro_sign">>, <<"pound_sign">>, <<"yen_sign">>}
WordCurrencies == {<<"toman">>, <<"rial">>}

SpokenOf(d) == Outputs(cardinal_numbers, d)
SpokenMoney == {a \o <<SP>> \o c : a \in UNION {SpokenOf(d) : d \in MoneyAmounts},
                                   c \in SpokenCurrencies}

ItnMoneyInit ==
    /\ input \in SpokenMoney
    /\ stage = "start"
    /\ result = {}
    /\ pick = <<>>
    /\ back = {}
    /\ NoConstruction

\* taggers/money.py MoneyFst.fst applied to the spoken form.
ItnTagMoney ==
    /\ stage = "start"
    /\ result' = Apply(itn_money_fst, input)
    /\ stage' = "itn_money"
    /\ UNCHANGED <<input, pick, back>>
    /\ UNCHANGED <<files, obj, log>>

\* verbalizers/money.py MoneyFst.fst applied to one token the tagger wrote.
ItnVerbalizeMoney ==
    /\ stage = "itn_money"
    /\ \E r \in result :
          /\ pick' = r[1]
          /\ back' = Apply(itnv_money_fst, r[1])
    /\ stage' = "itnv_money"
    /\ UNCHANGED <<input, result>>
    /\ UNCHANGED <<files, obj, log>>

ItnMoneyNext == ItnTagMoney \/ ItnVerbalizeMoney
ItnMoneySpec == ItnMoneyInit /\ [][ItnMoneyNext]_vars

---------------------------------------------------------------------------
(* DecimalSpec: a written decimal normalized (TN tagger, TN verbalizer)    *)
(* and the spoken form inverse-normalized (ITN tagger, ITN verbalizer).    *)

\* The digits the decimals of DecimalSpec are written with.
DecimalDigits == {"0", "1", "5"}
\* The integer part has at most MaxIntLen digits, the fractional part at
\* most MaxFracLen.
MaxIntLen == 3
MaxFracLen == 3

DecimalIntegers == {s \in UNION {[1..n -> DecimalDigits] : n \in 1..MaxIntLen} :
                       Len(s) = 1 \/ s[1] # "0"}
DecimalFractions == UNION {[1..n -> DecimalDigits] : n \in 1..MaxFracLen}
Decimals == {sgn \o i \o <<".">> \o f :
                sgn \in {<<>>, <<"-">>}, i \in DecimalIntegers, f \in DecimalFractions}

DecimalInit ==
    /\ input \in Decimals
    /\ stage = "start"
    /\ result = {}
    /\ pick = <<>>
    /\ back = {}
    /\ NoConstruction

\* The TN pass: DecimalFst.fst tags the decimal and the TN verbalizer renders
\* every token it wrote; result holds the spoken forms.
NormalizeDecimal ==
    /\ stage = "start"
    /\ result' = UNION {Apply(tnv_decimal_fst, t) : t \in Outputs(DecimalFst_fst, input)}
    /\ stage' = "tn_decimal"
    /\ UNCHANGED <<input, pick, back>>
    /\ UNCHANGED <<files, obj, log>>

\* The ITN pass over one spoken form: the ITN tagger tags it and the ITN
\* verbalizer renders every token it wrote; back holds the written forms.
InverseNormalizeDecimal ==
    /\ stage = "tn_decimal"
    /\ \E r \in result :
          /\ pick' = r[1]
          /\ back' = UNION {Apply(itnv_decimal_fst, t) : t \in Outputs(ItnDecimalFst_fst, r[1])}
    /\ stage' = "itn_decimal"
    /\ UNCHANGED <<input, result>>
    /\ UNCHANGED <<files, obj, log>>

DecimalNext == NormalizeDecimal \/ InverseNormalizeDecimal
DecimalSpec == DecimalInit /\ [][DecimalNext]_vars

---------------------------------------------------------------------------
(* TnMoneySpec: a written amount of money tagged by the TN money tagger,    *)
(* and one tagged token rendered by the TN money verbalizer.               *)

WrittenCurrencies == {<<"$">>, <<"euro_sign">>, <<"pound_sign">>, <<"toman">>, <<"rial">>}
\* The ways of writing the amount d in the currency c: c before d, c after
\* d, c after d and a space.
WrittenMoney(d, c) == {c \o d, d \o c, d \o <<SP>> \o c}

TnMoneyInit ==
    /\ input \in UNION {WrittenMoney(d, c) : d \in MoneyAmounts, c \in WrittenCurrencies}
    /\ stage = "start"
    /\ result = {}
    /\ pick = <<>>
    /\ back = {}
    /\ NoConstruction

\* taggers/money.py MoneyFst.fst applied to the written form.
TnTagMoney ==
    /\ stage = "start"
    /\ result' = Apply(MoneyFst_fst, input)
    /\ stage' = "tn_money"
    /\ UNCHANGED <<input, pick, back>>
    /\ UNCHANGED <<files, obj, log>>

\* verbalizers/money.py MoneyFst.fst applied to one token the tagger wrote.
TnVerbalizeMoney ==
    /\ stage = "tn_money"
    /\ \E r \in result :
          /\ pick' = r[1]
          /\ back' = Apply(tnv_money_fst, r[1])
    /\ stage' = "tnv_money"
    /\ UNCHANGED <<input, result>>
    /\ UNCHANGED <<files, obj, log>>

TnMoneyNext == TnTagMoney \/ TnVerbalizeMoney
TnMoneySpec == TnMoneyInit /\ [][TnMoneyNext]_vars

---------------------------------------------------------------------------
(* TaggerSpec: one string handed to a TN or an ITN tagger.                 *)

FractionIntegers == {<<>>, <<"2">>, <<"1", "0">>}
FractionNumerators == {<<"1">>, <<"2">>, <<"3">>}
FractionDenominators == {<<"2">>, <<"3">>, <<"4">>, <<"1", "0">>, <<"1", "2">>}
\* N/D, after an integer and one space when there is an integer.
WrittenFraction(i, n, d) == (IF i = <<>> THEN <<>> ELSE i \o <<SP>>) \o n \o <<"/">> \o d
WrittenFractions ==
    {WrittenFraction(i, n, d) : i \in FractionIntegers, n \in FractionNumerators,
                                d \in FractionDenominators}
WrittenDecimals ==
    {sgn \o i \o <<".">> \o f : sgn \in {<<>>, <<"-">>}, i \in {<<"0">>, <<"3">>},
                               f \in {<<"5">>, <<"1", "4">>}}
SpokenCardinals ==
    {m \o a : m \in {<<>>, <<"manfi", SP>>}, a \in UNION {SpokenOf(d) : d \in MoneyAmounts}}
SpokenDecimals ==
    UNION {UNION {Outputs(tnv_decimal_fst, t) : t \in Outputs(DecimalFst_fst, x)}
           : x \in WrittenDecimals}

TaggerInit ==
    /\ input \in WrittenFractions \cup WrittenDecimals \cup SpokenCardinals \cup SpokenDecimals
    /\ stage = "start"
    /\ result = {}
    /\ pick = <<>>
    /\ back = {}
    /\ NoConstruction

\* TN taggers/fraction.py FractionFst.fst
TagFraction ==
    /\ stage = "start"
    /\ result' = Apply(FractionFst_fst, input)
    /\ stage' = "tn_fraction"
    /\ UNCHANGED <<input, pick, back>>
    /\ UNCHANGED <<files, obj, log>>

\* TN taggers/decimal.py DecimalFst.fst
TagDecimal ==
    /\ stage = "start"
    /\ result' = Apply(DecimalFst_fst, input)
    /\ stage' = "tn_decimal"
    /\ UNCHANGED <<input, pick, back>>
    /\ UNCHANGED <<files, obj, log>>

\* ITN taggers/cardinal.py CardinalFst.fst
ItnTagCardinal ==
    /\ stage = "start"
    /\ result' = Apply(itn_cardinal_fst, input)
    /\ stage' = "itn_cardinal"
    /\ UNCHANGED <<input, pick, back>>
    /\ UNCHANGED <<files, obj, log>>

\* ITN taggers/decimal.py DecimalFst.fst
ItnTagDecimal ==
    /\ stage = "start"
    /\ result' = Apply(ItnDecimalFst_fst, input)
    /\ stage' = "itn_decimal"
    /\ UNCHANGED <<input, pick, back>>
    /\ UNCHANGED <<files, obj, log>>

TaggerNext == TagFraction \/ TagDecimal \/ ItnTagCardinal \/ ItnTagDecimal
TaggerSpec == TaggerInit /\ [][TaggerNext]_vars

---------------------------------------------------------------------------
(* FractionSpec: a written fraction tagged by the TN fraction tagger, and   *)
(* one tagged token rendered by the TN fraction verbalizer.                *)

FractionInit ==
    /\ input \in WrittenFractions
    /\ stage = "start"
    /\ result = {}
    /\ pick = <<>>
    /\ back = {}
    /\ NoConstruction

\* verbalizers/fraction.py FractionFst.fst applied to one token the tagger wrote.
VerbalizeFraction ==
    /\ stage = "tn_fraction"
    /\ \E r \in result :
          /\ pick' = r[1]
          /\ back' = Apply(tnv_fraction_fst, r[1])
    /\ stage' = "tnv_fraction"
    /\ UNCHANGED <<input, result>>
    /\ UNCHANGED <<files, obj, log>>

FractionNext == TagFraction \/ VerbalizeFraction
FractionSpec == FractionInit /\ [][FractionNext]_vars

---------------------------------------------------------------------------
(* CacheSpec: ClassifyFst constructed again and again over one disk.       *)
(* text_normalization/fa/taggers/tokenize_and_classify.py, ClassifyFst.__init__ *)

\* At most MaxConstructions constructions are made.
MaxConstructions == 3

\* Python's None, as an argument, and the string "None".
PyNone == "<None>"
InputCases == {"lower_cased", "cased"}
CacheDirs == {PyNone, "None", "cache"}
\* A whitelist path is the sequence of its components; no whitelist is <<>>.
Whitelists == {<<>>, <<"lists", "w.tsv">>}

\* os.path.basename(whitelist) if whitelist else ""
whitelist_file(whitelist) == IF whitelist = <<>> THEN "" ELSE whitelist[Len(whitelist)]

\* far_file: the components of
\* os.path.join(cache_dir, f"_{input_case}_fa_tn_{deterministic}_deterministic{whitelist_file}.far"),
\* or <<>> for None.
far_file(input_case, deterministic, cache_dir, whitelist) ==
    IF cache_dir # PyNone /\ cache_dir # "None"
    THEN <<cache_dir, input_case, deterministic, whitelist_file(whitelist)>>
    ELSE <<>>

\* os.path.exists(path)
Exists(fs, path) == \E f \in fs : f[1] = path
\* pynini.Far(path, mode="r")
Far(fs, path) == (CHOOSE f \in fs : f[1] = path)[2]

\* A generator_main that exports nothing.
generator_main_skipped(fs, file_name, graphs) == fs
\* generator_main(file_name, graphs): the archive of the graphs is written
\* to file_name, replacing the file that was there.
generator_main(fs, file_name, graphs) ==
    {f \in fs : f[1] # file_name} \cup {<<file_name, graphs>>}

\* The else branch of ClassifyFst.__init__: the taggers are built and
\* composed; the grammar is ClassifyFst_fst, built with the deterministic
\* flag handed to every tagger.
BuildClassify(deterministic) ==
    [grammar |-> "tokenize_and_classify", deterministic |-> deterministic]

CacheInit ==
    /\ NoText
    /\ NoConstruction

\* ClassifyFst(input_case, deterministic, cache_dir, overwrite_cache, whitelist)
ConstructClassifyFst ==
    /\ Len(log) < MaxConstructions
    /\ \E input_case \in InputCases, deterministic \in BOOLEAN, cache_dir \in CacheDirs,
          overwrite_cache \in BOOLEAN, whitelist \in Whitelists :
          LET far == far_file(input_case, deterministic, cache_dir, whitelist)
              restore == ~overwrite_cache /\ far # <<>> /\ Exists(files, far)
              fst == IF restore THEN Far(files, far).tokenize_and_classify
                     ELSE BuildClassify(deterministic)
              done == [class |-> "ClassifyFst",
                       input_case |-> input_case, deterministic |-> deterministic,
                       cache_dir |-> cache_dir, overwrite_cache |-> overwrite_cache,
                       whitelist |-> whitelist, far_file |-> far,
                       built |-> ~restore, wrote |-> ~restore /\ far # <<>>, fst |-> fst,
                       at |-> "done"]
          IN  /\ files' = IF ~restore /\ far # <<>>
                          THEN generator_main(files, far, [tokenize_and_classify |-> fst])
                          ELSE files
              /\ obj' = done
              /\ log' = Append(log, done)
    /\ UNCHANGED <<input, stage, result, pick, back>>

CacheNext == ConstructClassifyFst
CacheSpec == CacheInit /\ [][CacheNext]_vars

---------------------------------------------------------------------------
(* ConstructSpec: the constructors of the taggers and verbalizers.         *)
(* text_normalization/fa/graph_utils.py, class GraphFst                    *)

\* The attributes class GraphFst defines: __init__, far_exist and the
\* property fst with its setter.
GraphFstMethods == {"__init__", "far_exist", "fst"}
\* A GraphFst with the two wrapper operations.
GraphFstMethodsWithTokens == GraphFstMethods \cup {"add_tokens", "delete_tokens"}
\* Every grammar class defines __init__ only and inherits from GraphFst.
MethodsOf(class) == {"__init__"} \cup GraphFstMethods

TnTaggers == {"cardinal", "decimal", "ordinal", "fraction", "time", "date", "money", "measure"}
TnVerbalizers == {"decimal", "fraction", "measure", "money", "time"}
ItnTaggers == {"cardinal", "decimal", "fraction", "time", "date", "money", "measure"}
ItnVerbalizers == {"date", "decimal", "measure", "money", "time"}
GrammarClasses ==
    {<<"tn", "classify", n>> : n \in TnTaggers} \cup {<<"tn", "verbalize", n>> : n \in TnVerbalizers}
    \cup {<<"itn", "classify", n>> : n \in ItnTaggers}
    \cup {<<"itn", "verbalize", n>> : n \in ItnVerbalizers}

\* GraphFst.far_path: grammars/<kind>/<name>.far beside graph_utils.py
far_path(kind, name) == <<"grammars", kind, name>>

\* GraphFst.__init__(name, kind, deterministic), then the constructor's own
\* graph: the object is about to wrap its graph.
Constructed(class, deterministic, owner) ==
    [class |-> class, name |-> class[3], kind |-> class[2], deterministic |-> deterministic,
     fst |-> IF Exists(files, far_path(class[2], class[3]))
             THEN Far(files, far_path(class[2], class[3])) ELSE "None",
     at |-> "graph", owner |-> owner]

ConstructInit ==
    /\ NoText
    /\ NoConstruction

\* A tagger or verbalizer is constructed on its own, up to its last two lines.
NewGrammar ==
    /\ obj.at \in {"none", "done", "AttributeError"}
    /\ \E class \in GrammarClasses, deterministic \in BOOLEAN :
          obj' = Constructed(class, deterministic, "caller")
    /\ UNCHANGED <<input, stage, result, pick, back, files, log>>

\* ClassifyFst.__init__ without a cache constructs its first tagger,
\* CardinalFst(deterministic=deterministic).
NewClassifyFst ==
    /\ obj.at \in {"none", "done", "AttributeError"}
    /\ \E deterministic \in BOOLEAN :
          obj' = Constructed(<<"tn", "classify", "cardinal">>, deterministic, "ClassifyFst")
    /\ UNCHANGED <<input, stage, result, pick, back, files, log>>

\* final_graph = self.add_tokens(final_graph) / self.delete_tokens(graph),
\* then self.fst = final_graph.optimize(): the attribute is looked up on the
\* class and on GraphFst, and the lookup of a missing one raises AttributeError.
WrapGraph ==
    /\ obj.at = "graph"
    /\ LET wrapper == IF obj.kind = "classify" THEN "add_tokens" ELSE "delete_tokens"
       IN  obj' = IF wrapper \in MethodsOf(obj.class)
                  THEN [obj EXCEPT !.fst = wrapper, !.at = "done"]
                  ELSE [obj EXCEPT !.at = "AttributeError"]
    /\ UNCHANGED <<input, stage, result, pick, back, files, log>>

ConstructNext == NewGrammar \/ NewClassifyFst \/ WrapGraph
ConstructSpec == ConstructInit /\ [][ConstructNext]_vars

---------------------------------------------------------------------------
(* ClockSpec: a clock string H:MM or H.MM, well formed or not, tagged by   *)
(* TimeFst.fst.                                                            *)

\* The digits the hours and the minutes are typed with.
HourDigits == {"0", "2", "4"}
MinuteDigits == {"0", "5", "6", "9"}
\* An hour or a minutes string has at most MaxClockLen digits.
MaxClockLen == 3

\* The strings of 1..n digits drawn from D.
DigitRuns(D, n) == UNION {[1..k -> D] : k \in 1..n}

ClockInit ==
    /\ input \in DigitRuns(HourDigits, MaxClockLen)
    /\ stage = "hour"
    /\ result = {}
    /\ pick = <<>>
    /\ back = {}
    /\ NoConstruction

\* The separator and the minutes digits are typed.
TypeClock ==
    /\ stage = "hour"
    /\ \E sep \in {":", "."}, m \in DigitRuns(MinuteDigits, MaxClockLen) :
          input' = input \o <<sep>> \o m
    /\ stage' = "clock"
    /\ UNCHANGED <<result, pick, back>>
    /\ UNCHANGED <<files, obj, log>>

\* TimeFst.fst applied to the clock string.
TagClock ==
    /\ stage = "clock"
    /\ result' = Apply(TimeFst_fst, input)
    /\ stage' = "tn_clock"
    /\ UNCHANGED <<input, pick, back>>
    /\ UNCHANGED <<files, obj, log>>

ClockNext == TypeClock \/ TagClock
ClockSpec == ClockInit /\ [][ClockNext]_vars

---------------------------------------------------------------------------
(* WrittenDateSpec: three digit strings and two separators, well formed or *)
(* not, typed and tagged by DateFst.fst.                                   *)

\* The digit strings a date is typed from: days, months and years at and
\* beyond the ends of their ranges, with and without leading zeros.
DateParts ==
    { <<"0">>, <<"0", "0">>, <<"5">>, <<"0", "5">>, <<"0", "0", "5">>, <<"1", "2">>,
      <<"1", "3">>, <<"3", "1">>, <<"3", "2">>, <<"4", "0", "2">>, <<"1", "4", "0", "2">>,
      <<"0", "4", "0", "2">>, <<"2", "0", "2", "3">>, <<"1", "4", "0", "2", "0">> }
DateSeparators == {"/", "-"}

WrittenDateInit ==
    /\ input \in DateParts
    /\ stage = "part1"
    /\ result = {}
    /\ pick = <<>>
    /\ back = {}
    /\ NoConstruction

\* A separator and the next digit string are typed.
TypeDatePart ==
    /\ stage \in {"part1", "part2"}
    /\ \E sep \in DateSeparators, p \in DateParts : input' = input \o <<sep>> \o p
    /\ stage' = IF stage = "part1" THEN "part2" ELSE "written_date"
    /\ UNCHANGED <<result, pick, back>>
    /\ UNCHANGED <<files, obj, log>>

\* DateFst.fst applied to the written date.
TagDate ==
    /\ stage = "written_date"
    /\ result' = Apply(DateFst_fst, input)
    /\ stage' = "tn_date"
    /\ UNCHANGED <<input, pick, back>>
    /\ UNCHANGED <<files, obj, log>>

WrittenDateNext == TypeDatePart \/ TagDate
WrittenDateSpec == WrittenDateInit /\ [][WrittenDateNext]_vars

---------------------------------------------------------------------------
(* BareDecimalSpec: a written decimal, with or without digits before the   *)
(* separator, tagged by the TN DecimalFst and rendered by its verbalizer.  *)

\* The integer digits typed (none for a bare decimal) and the fractional digits.
BareIntegers == {<<>>, <<"0">>, <<"5">>, <<"1", "2">>}
BareFractions == UNION {[1..n -> {"0", "5"}] : n \in 1..MaxFracLen}
BareDecimals ==
    {sgn \o i \o <<sep>> \o f : sgn \in {<<>>, <<"-">>}, i \in BareIntegers,
                               sep \in {".", "momayyez_sign", ","}, f \in BareFractions}

BareDecimalInit ==
    /\ input \in BareDecimals
    /\ stage = "start"
    /\ result = {}
    /\ pick = <<>>
    /\ back = {}
    /\ NoConstruction

\* TN taggers/decimal.py DecimalFst.fst applied to the written decimal.
TagBareDecimal ==
    /\ stage = "start"
    /\ result' = Apply(DecimalFst_fst, input)
    /\ stage' = "bare_tagged"
    /\ UNCHANGED <<input, pick, back>>
    /\ UNCHANGED <<files, obj, log>>

\* One output of minimum weight is taken and the TN verbalizer
\* DecimalFst.fst is applied to it.
VerbalizeBareDecimal ==
    /\ stage = "bare_tagged"
    /\ \E r \in Best(result) :
          /\ pick' = r[1]
          /\ back' = Apply(tnv_decimal_fst, r[1])
    /\ stage' = "bare_verbalized"
    /\ UNCHANGED <<input, result>>
    /\ UNCHANGED <<files, obj, log>>

BareDecimalNext == TagBareDecimal \/ VerbalizeBareDecimal
BareDecimalSpec == BareDecimalInit /\ [][BareDecimalNext]_vars

---------------------------------------------------------------------------
(* WordStreamSpec: a token stream of plain-word tokens handed to the ITN   *)
(* VerbalizeFinalFst.                                                      *)

\* A stream has at most MaxTokens tokens.
MaxTokens == 3
\* The words of the tokens: one and two characters, a word with a space
\* inside, and a word made of structural characters.
StreamWords == { <<"a">>, <<"b", "c">>, <<"a", SP, "b">>, <<"}", "{">> }
\* The number of tokens of the stream s: every token has two quotes.
TokenCount(s) == Cardinality({k \in 1..Len(s) : s[k] = QUOTE}) \div 2

WordStreamInit ==
    /\ input \in Margins
    /\ stage = "stream"
    /\ result = {}
    /\ pick = <<>>
    /\ back = {}
    /\ NoConstruction

\* One more token  tokens { name: "w" }  is written, after whitespace when
\* it is not the first.
WriteWordToken ==
    /\ stage = "stream"
    /\ TokenCount(input) < MaxTokens
    /\ \E w \in StreamWords, gap \in Gaps \cup {<<"\t">>} :
          input' = input \o (IF TokenCount(input) = 0 THEN <<>> ELSE gap)
                         \o <<"tokens", SP, "{", SP, "name:", SP, QUOTE>> \o w \o <<QUOTE, SP, "}">>
    /\ UNCHANGED <<stage, result, pick, back>>
    /\ UNCHANGED <<files, obj, log>>

\* The stream ends, with or without whitespace, and VerbalizeFinalFst.fst
\* is applied to it.
VerbalizeFinal ==
    /\ stage = "stream"
    /\ TokenCount(input) > 0
    /\ \E m \in Margins :
          /\ input' = input \o m
          /\ result' = Apply(itnv_final_graph, input')
    /\ stage' = "verbalized_final"
    /\ UNCHANGED <<pick, back>>
    /\ UNCHANGED <<files, obj, log>>

WordStreamNext == WriteWordToken \/ VerbalizeFinal
WordStreamSpec == WordStreamInit /\ [][WordStreamNext]_vars

---------------------------------------------------------------------------
(* Reading the strings of the model: digits, values, chunks, tokens.       *)

IsDigits(s) == \A k \in 1..Len(s) : s[k] \in DigitChars
\* A canonical decimal string: digits only, no leading zero unless it is 0 itself.
IsCanonical(s) == s # <<>> /\ IsDigits(s) /\ (Len(s) = 1 \/ s[1] # "0")
DigitValue(c) == CHOOSE d \in 0..9 : DigitOf(d) = c
\* The integer a digit string denotes.
RECURSIVE NumOf(_)
NumOf(s) ==
    IF s = <<>> THEN 0 ELSE NumOf(SubSeq(s, 1, Len(s) - 1)) * 10 + DigitValue(s[Len(s)])

\* The value of each number word of Persian.
WordValues ==
    { <<"sefr", 0>>, <<"yek", 1>>, <<"do", 2>>, <<"se", 3>>, <<"chahar", 4>>, <<"panj", 5>>,
      <<"shesh", 6>>, <<"haft", 7>>, <<"hasht", 8>>, <<"noh", 9>>, <<"dah", 10>>,
      <<"yazdah", 11>>, <<"davazdah", 12>>, <<"sizdah", 13>>, <<"chahardah", 14>>,
      <<"panzdah", 15>>, <<"shanzdah", 16>>, <<"hefdah", 17>>, <<"hejdah", 18>>,
      <<"nuzdah", 19>>, <<"bist", 20>>, <<"si", 30>>, <<"chehel", 40>>, <<"panjah", 50>>,
      <<"shast", 60>>, <<"haftad", 70>>, <<"hashtad", 80>>, <<"navad", 90>>, <<"sad", 100>>,
      <<"devist", 200>>, <<"sisad", 300>>, <<"chaharsad", 400>>, <<"pansad", 500>>,
      <<"sheshsad", 600>>, <<"haftsad", 700>>, <<"hashtsad", 800>>, <<"nohsad", 900>> }
WordValue(w) == (CHOOSE p \in WordValues : p[1] = w)[2]
\* The multiplier a scale word stands for (0 for every other word).
ScaleOf(w) ==
    IF w = "hezar" THEN 1000
    ELSE IF w = "milyun" THEN 1000 * 1000
    ELSE IF w = "milyard" THEN 1000 * 1000 * 1000
    ELSE 0
\* The value of a reading from its word k on: total holds the groups already
\* scaled, group the words since the last scale word.  A scale word multiplies
\* the group before it, and a bare scale word counts once.
RECURSIVE ReadingValue(_, _, _, _)
ReadingValue(o, k, total, group) ==
    IF k > Len(o) THEN total + group
    ELSE IF ScaleOf(o[k]) > 0
         THEN ReadingValue(o, k + 1,
                           total + (IF group = 0 THEN 1 ELSE group) * ScaleOf(o[k]), 0)
    ELSE IF \E p \in WordValues : p[1] = o[k]
         THEN ReadingValue(o, k + 1, total, group + WordValue(o[k]))
    ELSE ReadingValue(o, k + 1, total, group)
ValueOf(o) == ReadingValue(o, 1, 0, 0)

\* The sub-graph of cardinal_numbers written for the numbers of k digits.
KDigitGraph(k) ==
    << Alt(<<graph_zero, graph_single_digit>>), graph_two_digit, graph_three_digit,
       graph_four_digit, graph_five_digit, graph_six_digit, graph_seven_digit,
       graph_eight_digit, graph_nine_digit, graph_ten_digit >>[k]

\* x occurs in o as a run of consecutive symbols.
Contains(o, x) ==
    \E k \in 0..(Len(o) - Len(x)) : SubSeq(o, k + 1, k + Len(x)) = x
\* A class body as one block of the tagged output:  tokens { body }
TokenBlock(body) == <<"tokens", SP, "{", SP>> \o body \o <<SP, "}">>
\* The block of the chunk c tagged as a Word.
WordBlock(c) == TokenBlock(<<"name:", SP, QUOTE>> \o c \o <<QUOTE>>)
\* The class grammars of ClassifyFst other than Word.
SpecificGrammars ==
    {TimeFst_fst, DateFst_fst, MoneyFst_fst, MeasureFst_fst, OrdinalFst_fst, FractionFst_fst, DecimalFst_fst,
     cardinal_fst}
\* The chunks some class grammar other than Word accepts.
SpecificChunks == {c \in Chunks : \E g \in SpecificGrammars : Apply(g, c) # {}}
\* A numeral outside every range the cardinal graph reads.
MalformedNumeral(c) == IsDigits(c) /\ Apply(cardinal_numbers_with_leading_zeros, c) = {}
\* The outputs of minimum weight among the results of the last grammar applied.
BestResults == {r[1] : r \in Best(result)}

\* The tagged output o has no whitespace at either end, and each of its tokens
\* blocks after the first follows the closing brace of the one before after
\* exactly one space.
WellSpaced(o) ==
    /\ o # <<>>
    /\ o[1] \notin WhiteSpaceChars
    /\ o[Len(o)] \notin WhiteSpaceChars
    /\ \A k \in 2..Len(o) : o[k] = "tokens" => (k > 2 /\ o[k - 1] = SP /\ o[k - 2] = "}")

\* The hour and the minutes of the clock time H:MM (the minutes without a leading zero).
HourOf(s) == SubSeq(s, 1, Len(s) - 3)
MinutesOf(s) == IF s[Len(s) - 1] = "0" THEN <<s[Len(s)]>> ELSE SubSeq(s, Len(s) - 1, Len(s))
\* The time tokens whose hours and minutes are cardinal readings of the two numbers of s.
CardinalTimes(s) ==
    {<<"time", SP, "{", SP, "hours:", SP, QUOTE>> \o h \o <<QUOTE, SP, "minutes:", SP, QUOTE>>
        \o m \o <<QUOTE, SP, "}">>
     : h \in Outputs(cardinal_numbers, HourOf(s)), m \in Outputs(cardinal_numbers, MinutesOf(s))}

---------------------------------------------------------------------------
(* The claims.                                                             *)

\* C1: every sentence ClassifyFst.fst accepts has exactly one output of
\* minimum total weight: no two different tagged outputs tie for the minimum.
C1_UniqueBest ==
    (stage = "classified" /\ result # {}) => Cardinality(BestResults) = 1

\* C2: every reading cardinal_numbers gives for the canonical string of an
\* integer n in 0..999999 has the value n.
C2_ReadingValue ==
    (stage = "tn_cardinal" /\ IsCanonical(input) /\ Len(input) <= 6)
        => \A r \in result : ValueOf(r[1]) = NumOf(input)

\* C3: cardinal_numbers accepts exactly the canonical digit strings of its
\* declared range, and reads a string of k digits as the k-digit sub-graph does.
C3_AcceptedStrings ==
    stage = "tn_cardinal"
        => /\ (result # {}) <=> IsCanonical(input)
           /\ result = Apply(KDigitGraph(Len(input)), input)

\* C4: every reading of a number in 1000..1999 starts with the bare word
\* hezar, and 1000 has the single reading hezar.
C4_BareHezar ==
    (stage = "tn_cardinal" /\ Len(input) = 4 /\ input[1] = "1")
        => /\ result # {}
           /\ \A r \in result : r[1][1] = "hezar"
           /\ input = <<"1", "0", "0", "0">> => {r[1] : r \in result} = {<<"hezar">>}

\* C5: for the canonical string of an integer in 0..999999, the ITN cardinal
\* graph maps every reading the TN cardinal graph gave it back to exactly
\* that string.
C5_RoundTrip ==
    (stage = "itn_cardinal" /\ IsCanonical(input) /\ Len(input) <= 6)
        => {b[1] : b \in back} = {input}

\* C6: a chunk I.F the decimal tagger accepts is tagged as that decimal token
\* in every minimum-weight output of ClassifyFst.fst.
C6_DecimalWins ==
    stage = "classified"
        => \A k \in 1..Len(ChunksOf(input)) :
              LET c == ChunksOf(input)[k]
              IN  (c[1] \in DigitChars /\ Apply(DecimalFst_fst, c) # {})
                     => \A o \in BestResults :
                           \E d \in Outputs(DecimalFst_fst, c) : Contains(o, TokenBlock(d))

\* C7: a chunk that some class grammar other than Word accepts is not tagged
\* as a Word in any minimum-weight output, whatever the rest of the sentence.
C7_WordLast ==
    stage = "classified"
        => \A k \in 1..Len(ChunksOf(input)) :
              LET c == ChunksOf(input)[k]
              IN  c \in SpecificChunks
                     => \A o \in BestResults : ~Contains(o, WordBlock(c))

\* C7 witness: a two-chunk sentence is classified, one of its chunks is
\* accepted by a specific grammar and by Word, and an output that is not of
\* minimum weight tags it as a Word.
C7_Witness ==
    /\ stage = "classified"
    /\ Len(ChunksOf(input)) = 2
    /\ \E k \in 1..2 :
          LET c == ChunksOf(input)[k]
          IN  /\ c \in SpecificChunks
              /\ Apply(word_fst, c) # {}
              /\ \E r \in result : Contains(r[1], WordBlock(c))
              /\ BestResults # {}

C9_Whitespace ==
    stage = "classified" => \A r \in result : WellSpaced(r[1])

\* C9 witness: a sentence with a tab before it, a newline after it and a
\* non-breaking space and a space between its two chunks has a parse.
C9_Witness ==
    /\ stage = "classified"
    /\ result # {}
    /\ Len(ChunksOf(input)) = 2
    /\ input[1] = "\t"
    /\ input[Len(input)] = "\n"
    /\ \E k \in 1..(Len(input) - 1) : input[k] = "nbsp" /\ input[k + 1] = SP

\* C10: TimeFst tags H:MM, MM in 01..59, with exactly one output, whose hours
\* and minutes are the cardinal readings of H and MM.
C10_CardinalMinutes ==
    (stage = "tn_time" /\ SubSeq(input, Len(input) - 1, Len(input)) # <<"0", "0">>)
        => /\ Cardinality(Outputs(TimeFst_fst, input)) = 1
           /\ {r[1] : r \in result} = CardinalTimes(input)

\* The rendering H:MM, MM being 00 without a minutes field, then one space
\* and the suffix when there is one.
TimeRendering(h, m, x) ==
    h \o <<":">> \o (IF m = <<>> THEN <<"0", "0">> ELSE m)
      \o (IF x = <<>> THEN <<>> ELSE <<SP>> \o x)

C13_MeasureSpacing ==
    stage = "itnv_measure"
        => \A n \in TokenIntegers, u \in NoSpaceUnits \cup SpacedUnits :
              input = MeasureToken(n, u)
                 => {r[1] : r \in result}
                       = {n \o (IF u \in NoSpaceUnits THEN <<>> ELSE <<SP>>) \o u}

MoneyToken(d, c) ==
    ClassBlock("money", Pair("integer_part:", d) \o <<SP>> \o Pair("currency:", c))

\* C12: every token the ITN money tagger writes is rendered by the ITN money
\* verbalizer: a symbol currency as the symbol directly followed by the
\* digits, a word currency as digits, one space, the word; every currency
\* the tagger writes is in exactly one of the two sets.
C12_MoneyRendered ==
    stage = "itnv_money"
        => /\ back # {}
           /\ \A d \in MoneyAmounts, c \in Outputs(itn_currency_map, SubSeq(input, Len(input), Len(input))) :
                 /\ (c \in SymbolCurrencies) # (c \in WordCurrencies)
                 /\ pick = MoneyToken(d, c)
                       => {b[1] : b \in back}
                             = {IF c \in SymbolCurrencies THEN c \o d ELSE d \o <<SP>> \o c}

\* The digits of a decimal before and after its point, without the sign.
DotAt(s) == CHOOSE k \in 1..Len(s) : s[k] = "."
IntegerDigits(s) == SubSeq(s, IF s[1] = "-" THEN 2 ELSE 1, DotAt(s) - 1)
FractionDigits(s) == SubSeq(s, DotAt(s) + 1, Len(s))

C16_AmountFirst ==
    stage = "tnv_money"
        => \A d \in MoneyAmounts, c \in WrittenCurrencies :
              input \in WrittenMoney(d, c)
                 => /\ back # {}
                    /\ {b[1] : b \in back}
                          \subseteq {a \o <<SP>> \o w : a \in SpokenOf(d),
                                                       w \in Outputs(currency_graph, c)}

FieldNames ==
    {"negative:", "integer:", "integer_part:", "fractional_part:", "numerator:",
     "denominator:"}

\* b[k..] is field: "value" pairs joined by single spaces: a field name, a
\* space, a quote, the value up to the next quote, and then the end of b or
\* one space and further pairs.
RECURSIVE PairsFrom(_, _)
PairsFrom(b, k) ==
    /\ k + 3 <= Len(b)
    /\ b[k] \in FieldNames
    /\ b[k + 1] = SP
    /\ b[k + 2] = QUOTE
    /\ \E e \in (k + 3)..Len(b) :
          /\ b[e] = QUOTE
          /\ \A j \in (k + 3)..(e - 1) : b[j] # QUOTE
          /\ \/ e = Len(b)
             \/ e + 2 <= Len(b) /\ b[e + 1] = SP /\ PairsFrom(b, e + 2)

\* o is name { body } with a well-formed body.
WellFormedToken(o) ==
    /\ Len(o) > 6
    /\ SubSeq(o, 2, 4) = <<SP, "{", SP>>
    /\ SubSeq(o, Len(o) - 1, Len(o)) = <<SP, "}">>
    /\ PairsFrom(SubSeq(o, 5, Len(o) - 2), 1)

\* C17: every output of a TN or ITN tagger is a class body of field: "value"
\* pairs, each value in one pair of quotes, no quote doubled, one space
\* between consecutive pairs, also after a negative field.
C17_TagFormat ==
    stage # "start" => \A r \in result : WellFormedToken(r[1])

\* The spoken denominators of d: the table's ordinal, or the cardinal and م.
SpokenDenominators(d) ==
    Outputs(graph_denominator, d) \cup {a \o <<"mim">> : a \in SpokenOf(d)}

\* C18: every token the TN fraction tagger writes for N/D, with or without an
\* integer before it, is rendered by the TN fraction verbalizer as numerator,
\* one space, denominator, after the integer and ' و ' when there is one;
\* special fractions and all others alike.
C18_FractionRendered ==
    stage = "tnv_fraction"
        => \A i \in FractionIntegers, n \in FractionNumerators, d \in FractionDenominators :
              input = WrittenFraction(i, n, d)
                 => /\ back # {}
                    /\ {b[1] : b \in back}
                          \subseteq {(IF i = <<>> THEN <<>> ELSE x \o <<SP, "va", SP>>)
                                        \o a \o <<SP>> \o w
                                     : x \in (IF i = <<>> THEN {<<>>} ELSE SpokenOf(i)),
                                       a \in SpokenOf(n), w \in SpokenDenominators(d)}

\* Two constructions were given the same arguments, overwrite_cache aside.
SameArguments(a, b) ==
    /\ a.input_case = b.input_case
    /\ a.deterministic = b.deterministic
    /\ a.cache_dir = b.cache_dir
    /\ a.whitelist = b.whitelist

C20_ConstructionCompletes ==
    obj.at \notin {"none", "graph"}
        => /\ obj.at = "done"
           /\ obj.fst \in {"add_tokens", "delete_tokens"}

\* The place of the separator of a clock string, its hour and its minutes.
ClockSepAt(s) == CHOOSE k \in 1..Len(s) : s[k] \in {":", "."}
ClockHour(s) == SubSeq(s, 1, ClockSepAt(s) - 1)
ClockMinutes(s) == SubSeq(s, ClockSepAt(s) + 1, Len(s))
\* The hour without its leading zero.
BareHour(h) == IF Len(h) = 2 /\ h[1] = "0" THEN <<h[2]>> ELSE h

\* C21: TimeFst accepts H:MM or H.MM only when H has one or two digits and a
\* value in 0..23 and MM is exactly two digits with a value in 00..59; for
\* MM = 00 every tagging is the hours field alone, the cardinal reading of H,
\* with no minutes field.
C21_ClockFormat ==
    (stage = "tn_clock" /\ result # {})
        => LET h == ClockHour(input)
               m == ClockMinutes(input)
           IN  /\ Len(h) \in 1..2 /\ NumOf(h) \in 0..23
               /\ Len(m) = 2 /\ NumOf(m) \in 0..59
               /\ m = <<"0", "0">>
                    => {r[1] : r \in result}
                        = {<<"time", SP, "{", SP, "hours:", SP, QUOTE>> \o w \o <<QUOTE, SP, "}">>
                           : w \in Outputs(cardinal_numbers, BareHour(h))}
\* 02.00 is tagged, with the hours field and no minutes field.
C21_Witness ==
    /\ stage = "tn_clock"
    /\ input = <<"0", "2", ".", "0", "0">>
    /\ result # {}
    /\ \A r \in result : Contains(r[1], <<"hours:">>) /\ ~Contains(r[1], <<"minutes:">>)

\* The places of the separators of a written date, and its three parts.
SepPlaces(s) == {k \in 1..Len(s) : s[k] \notin DigitChars}
FirstSep(s) == CHOOSE k \in SepPlaces(s) : \A j \in SepPlaces(s) : k <= j
LastSep(s) == CHOOSE k \in SepPlaces(s) : \A j \in SepPlaces(s) : k >= j
DatePart(s, n) ==
    IF n = 1 THEN SubSeq(s, 1, FirstSep(s) - 1)
    ELSE IF n = 2 THEN SubSeq(s, FirstSep(s) + 1, LastSep(s) - 1)
    ELSE SubSeq(s, LastSep(s) + 1, Len(s))
\* One or two digits with a value in lo..hi.
InRange(p, lo, hi) == Len(p) \in 1..2 /\ NumOf(p) \in lo..hi
IsYear(p) == Len(p) = 4 /\ p[1] # "0"
\* The four formats of DateFst.graph, each as a grammar of its own.
DateFormats ==
    << DateOrder(final_year(CardinalFst), final_month_jalali, final_day(CardinalFst), "/"),
       DateOrder(final_day(CardinalFst), final_month_jalali, final_year(CardinalFst), "/"),
       DateOrder(final_year(CardinalFst), final_month_gregorian, final_day(CardinalFst), "-"),
       DateOrder(final_day(CardinalFst), final_month_gregorian, final_year(CardinalFst), "-") >>
\* The month field the table of the separator sep gives the month string p.
MonthFields(sep, p) ==
    {<<"month:", SP, QUOTE>> \o n \o <<QUOTE>>
     : n \in Outputs(IF sep = "/" THEN months_jalali ELSE months_gregorian, NumStr(NumOf(p)))}

IsBare(s) == s[1] \notin DigitChars /\ (s[1] = "-" => s[2] \notin DigitChars)

\* C23: for a decimal with no integer digits, every minimum-weight output of
\* the TN decimal tagger has integer_part "صفر" and none has an empty
\* integer_part, and the TN decimal verbalizer accepts the output taken.
C23_BareDecimal ==
    /\ (stage = "bare_tagged" /\ IsBare(input))
          => /\ result # {}
             /\ \A r \in Best(result) :
                   /\ Contains(r[1], <<"integer_part:", SP, QUOTE, "sefr", QUOTE>>)
                   /\ ~Contains(r[1], <<"integer_part:", SP, QUOTE, QUOTE>>)
    /\ (stage = "bare_verbalized" /\ IsBare(input)) => back # {}

\* The words between the quotes of the stream s from place k on, joined by
\* single spaces.
RECURSIVE JoinedWords(_, _)
JoinedWords(s, k) ==
    IF \A j \in k..Len(s) : s[j] # QUOTE THEN <<>>
    ELSE LET a == CHOOSE j \in k..Len(s) : s[j] = QUOTE /\ \A i \in k..(j - 1) : s[i] # QUOTE
             b == CHOOSE j \in (a + 1)..Len(s) : s[j] = QUOTE /\ \A i \in (a + 1)..(j - 1) : s[i] # QUOTE
             rest == JoinedWords(s, b + 1)
         IN  SubSeq(s, a + 1, b - 1) \o (IF rest = <<>> THEN <<>> ELSE <<SP>> \o rest)

=============================================================================
